---- MODULE Spec2Model ----
(***************************************************************************)
(* AIProviderManager (server/services/ai-provider-manager.ts): provider    *)
(* selection, retrying executor, fallback chain and provider metrics.      *)
(*                                                                         *)
(* Every chat() call is a process.  A step of the model is one run of the  *)
(* JavaScript event loop's job for that call: the code between two awaits  *)
(* runs without interleaving, the awaits are the points where other calls  *)
(* and configuration updates can run.                                      *)
(***************************************************************************)
EXTENDS Integers, Sequences, FiniteSets, TLC

\* ------------------------------------------------------------------ bounds
\* chat() calls issued during one behaviour (each call id is used once).
MaxCalls == 2
\* Length up to which the per-call history of failed providers is recorded.
MaxAttempted == 2
\* Value up to which the counters are tracked in the saturating specification.
MaxCount == 2
\* chat() calls issued during one behaviour of the saturating specification.
MaxLiveCalls == 1
\* Operations on record in the specifications of the manager's operations.
MaxLog == 3

\* ------------------------------------------------------- program constants
maxAttempts == 3
baseDelay == 1000
MaxBackoff == 120000
LargeContextWindow == 150000

Calls == 1 .. MaxCalls
LiveCalls == 1 .. MaxLiveCalls

\* Registry iteration order (Map insertion order = order of the config list).
ProviderOrder == <<"A", "B">>
Providers == {ProviderOrder[i] : i \in 1 .. Len(ProviderOrder)}

Undefined == "undefined"
\* An absent optional object (usage, costPer1kTokens) and an absent number.
NoObject == [undefined |-> TRUE]
NoNumber == <<>>

\* ------------------------------------------------------------- rationals
\* JavaScript numbers that are not integers are kept as exact fractions <<n, d>>.
RECURSIVE GCD(_, _)
GCD(a, b) == IF b = 0 THEN a ELSE GCD(b, a % b)

\* (Each operator binds its arguments to their values before using them.)
Reduce(n, d) ==
    CHOOSE r \in {IF g = 0 THEN <<0, 1>> ELSE <<n \div g, d \div g>> : g \in {GCD(n, d)}} : TRUE
Rat(n0, d0) == CHOOSE r \in {Reduce(n, d) : n \in {n0}, d \in {d0}} : TRUE
RatAdd(x0, y0) ==
    CHOOSE r \in {Reduce(x[1] * y[2] + y[1] * x[2], x[2] * y[2]) : x \in {x0}, y \in {y0}} : TRUE
RatMul(x0, y0) ==
    CHOOSE r \in {Reduce(x[1] * y[1], x[2] * y[2]) : x \in {x0}, y \in {y0}} : TRUE
RatLess(x0, y0) ==
    CHOOSE r \in {x[1] * y[2] < y[1] * x[2] : x \in {x0}, y \in {y0}} : TRUE
RatInt(n) == <<n, 1>>

\* ------------------------------------------------------------ the inputs
\* What one transport call can end as: a response, an HTTP error status, a
\* socket error code, or the timeout timer winning the race.
Faults ==
    {"400", "429", "429r", "503", "504", "500", "ETIMEDOUT", "ECONNREFUSED", "timeout"}
Outcomes == Faults \cup {"ok"}

\* error.status || error.code || "unknown": the timeout error of chat() is a
\* plain Error("Request timeout") and has neither a status nor a code; "429r"
\* is a 429 that carries a Retry-After header.
ErrorCode(error) ==
    CASE error = "timeout" -> "unknown"
      [] error = "429r" -> "429"
      [] OTHER -> error

ErrorCodes == {ErrorCode(f) : f \in Faults}

\* The outcomes a provider's transport produces during one behaviour: it
\* always answers, or always fails in one way, or (one irregular provider
\* next to a reliable one) it sometimes answers and sometimes fails, or fails
\* in two ways.
Steady == {{"ok"}, {"503"}, {"400"}, {"timeout"}}
Irregular == {{"ok", "503"}, {"503", "400"}}
Worlds ==
    [Providers -> Steady] \cup
    {[p \in Providers |-> IF p = u THEN b ELSE {"ok"}] : u \in Providers, b \in Irregular}

Latencies == {100}
Usage1 == [inputTokens |-> 1000, outputTokens |-> 500, totalTokens |-> 1500]
Usages == {NoObject, Usage1}

\* RequestContext: taskComplexity in tenths, contextSize in tokens.
Contexts ==
    [taskComplexity : {5, 8},
     contextSize : {1000, 95000, 150000, 250000},
     preferredProvider : {Undefined, "A", "B", "X"}]

\* ProviderConfig of the two registered providers.
InitialConfig(p) ==
    IF p = "A"
    THEN [enabled |-> TRUE, priority |-> 1, contextWindow |-> 128000, model |-> "m1",
          costPer1kTokens |-> [input |-> <<1, 100>>, output |-> <<3, 100>>]]
    ELSE [enabled |-> TRUE, priority |-> 1, contextWindow |-> 200000, model |-> "m1",
          costPer1kTokens |-> NoObject]

InitialMetrics ==
    [totalRequests |-> 0, successfulRequests |-> 0, failedRequests |-> 0,
     totalTokensUsed |-> 0, totalInputTokens |-> 0, totalOutputTokens |-> 0,
     averageResponseTime |-> <<0, 1>>, totalCost |-> <<0, 1>>,
     lastUsed |-> Undefined, rateLimitRemaining |-> NoNumber,
     errorCounts |-> [code \in ErrorCodes |-> 0]]

DefaultRoutingConfig ==
    [taskComplexityThreshold |-> 7, contextSizeThreshold |-> 90000,
     rateLimitThreshold |-> <<2, 10>>, enableFallback |-> TRUE]

VARIABLES
    providers,      \* name -> [config, metrics]
    routingConfig,
    behaviour,      \* name -> the outcomes that provider's transport produces
    pc,             \* call -> "idle" | "inflight" | "delay" | "failed" | "succeeded" | "done" | "rejected"
    current,        \* call -> provider of the running attemptWithProvider
    attempt,        \* call -> attempt index of executeWithRetry's loop
    lastError,      \* call -> error caught last in the running executeWithRetry
    delays,         \* call -> the delays executeWithRetry has waited in this run
    pending,        \* call -> result held by a resolved executeWithRetry
    attempted,      \* call -> <<[providerName, error]>> of the failed executions
    result,         \* call -> what chat() settled with
    selection,      \* the routing decision on record: [context, provider]
    log,            \* the operations on record, oldest first
    requestQueue,   \* name -> the units of work waiting in provider.requestQueue
    isProcessingQueue,  \* name -> provider.isProcessingQueue
    loops,          \* name -> the processQueue invocations that are in their loop
    units           \* unit of work -> [status, provider]

vars == <<providers, routingConfig, behaviour, pc, current, attempt, lastError,
          delays, pending, attempted, result, selection, log,
          requestQueue, isProcessingQueue, loops, units>>

\* The variables of the request queues.
queueVars == <<requestQueue, isProcessingQueue, loops, units>>

\* ------------------------------------------------------- executeWithRetry

\* error.headers?.["retry-after"], in seconds.
RetryAfterHeader(error) == IF error = "429r" THEN <<5>> ELSE NoNumber

RECURSIVE Pow2(_)
Pow2(n) == IF n = 0 THEN 1 ELSE 2 * Pow2(n - 1)

Min(a, b) == IF a < b THEN a ELSE b

\* A catch block that retried a 400 like a 503.
RetryPolicyRetrying400(error, att) ==
    IF att < maxAttempts - 1 /\ ErrorCode(error) \in {"429", "504", "400", "503"}
    THEN [retry |-> TRUE, delay |-> baseDelay * Pow2(att)]
    ELSE [retry |-> FALSE, delay |-> 0]

\* A catch block whose 429 delay did not grow with the attempt index.
RetryPolicyConstantBackoff(error, att) ==
    LET errorCode == ErrorCode(error)
    IN  IF att < maxAttempts - 1 /\ errorCode \in {"429", "504", "ETIMEDOUT", "503", "ECONNREFUSED"}
        THEN [retry |-> TRUE,
              delay |-> IF errorCode = "429"
                        THEN (IF RetryAfterHeader(error) # NoNumber
                              THEN RetryAfterHeader(error)[1] * 1000
                              ELSE baseDelay)
                        ELSE Min(baseDelay * Pow2(att), MaxBackoff)]
        ELSE [retry |-> FALSE, delay |-> 0]

\* A catch block whose backoff started at twice the base delay.
RetryPolicyLateExponent(error, att) ==
    LET errorCode == ErrorCode(error)
    IN  IF att < maxAttempts - 1 /\ errorCode \in {"429", "504", "ETIMEDOUT", "503", "ECONNREFUSED"}
        THEN [retry |-> TRUE,
              delay |-> IF RetryAfterHeader(error) # NoNumber
                        THEN RetryAfterHeader(error)[1] * 1000
                        ELSE Min(baseDelay * Pow2(att + 1), MaxBackoff)]
        ELSE [retry |-> FALSE, delay |-> 0]

\* A catch block that did not read the Retry-After header.
RetryPolicyIgnoringRetryAfter(error, att) ==
    LET errorCode == ErrorCode(error)
    IN  IF att < maxAttempts - 1 /\ errorCode \in {"429", "504", "ETIMEDOUT", "503", "ECONNREFUSED"}
        THEN [retry |-> TRUE, delay |-> Min(baseDelay * Pow2(att), MaxBackoff)]
        ELSE [retry |-> FALSE, delay |-> 0]

\* A catch block that compared the attempt index with maxAttempts itself.
RetryPolicyOneMore(error, att) ==
    LET errorCode == ErrorCode(error)
    IN  IF att < maxAttempts /\ errorCode \in {"429", "504", "ETIMEDOUT", "503", "ECONNREFUSED"}
        THEN [retry |-> TRUE,
              delay |-> IF RetryAfterHeader(error) # NoNumber
                        THEN RetryAfterHeader(error)[1] * 1000
                        ELSE Min(baseDelay * Pow2(att), MaxBackoff)]
        ELSE [retry |-> FALSE, delay |-> 0]

\* A catch block that kept retrying an error it does not classify.
RetryPolicyRetryingOthers(error, att) ==
    IF att < maxAttempts - 1 /\ ErrorCode(error) # "400"
    THEN [retry |-> TRUE,
          delay |-> IF RetryAfterHeader(error) # NoNumber
                    THEN RetryAfterHeader(error)[1] * 1000
                    ELSE Min(baseDelay * Pow2(att), MaxBackoff)]
    ELSE [retry |-> FALSE, delay |-> 0]

\* The catch block of executeWithRetry: what it does with an error caught at
\* attempt index att: wait `delay` and continue, or throw.
RetryPolicy(error, att) ==
    LET errorCode == ErrorCode(error)
        more == att < maxAttempts - 1
        Wait(ms) == [retry |-> TRUE, delay |-> ms]
        Throw == [retry |-> FALSE, delay |-> 0]
    IN  CASE errorCode = "429" ->
                IF more
                THEN Wait(IF RetryAfterHeader(error) # NoNumber
                          THEN RetryAfterHeader(error)[1] * 1000
                          ELSE baseDelay * Pow2(att))
                ELSE Throw
          [] errorCode \in {"504", "ETIMEDOUT"} ->
                IF more THEN Wait(Min(baseDelay * Pow2(att), MaxBackoff)) ELSE Throw
          [] errorCode = "400" -> Throw
          [] errorCode \in {"503", "ECONNREFUSED"} ->
                IF more THEN Wait(baseDelay * Pow2(att)) ELSE Throw
          [] OTHER -> Throw

\* provider.metrics.errorCounts[errorCode]++ (a missing key counts as 0).
\* In the saturating specification a count stays at MaxCount.
CountError(errorCounts, errorCode, exact) ==
    [errorCounts EXCEPT ![errorCode] = IF exact \/ @ < MaxCount THEN @ + 1 ELSE @]

\* A catch block that also counted every failed attempt as a request.
RecordErrorCountingAttempts(metrics, error, exact) ==
    [metrics EXCEPT !.errorCounts = CountError(@, ErrorCode(error), exact),
                    !.totalRequests = @ + 1,
                    !.failedRequests = @ + 1]

\* A catch block that counted only the errors that have a status or a code.
RecordErrorSkippingUnknown(metrics, error, exact) ==
    IF ErrorCode(error) = "unknown"
    THEN metrics
    ELSE [metrics EXCEPT !.errorCounts = CountError(@, ErrorCode(error), exact)]

\* What the catch block of executeWithRetry writes to the provider's metrics.
RecordError(metrics, error, exact) ==
    [metrics EXCEPT !.errorCounts = CountError(@, ErrorCode(error), exact)]

\* ---------------------------------------------------------- updateMetrics
\* An updateMetrics that forgot the failure counter.
UpdateMetricsNotCountingFailures(m, config, success, responseTime, usage) ==
    [m EXCEPT !.totalRequests = @ + 1,
              !.successfulRequests = IF success THEN @ + 1 ELSE @,
              !.lastUsed = "set"]

\* An updateMetrics that averaged the old average with the new response time.
UpdateMetricsAveragingPairs(m, config, success, responseTime, usage) ==
    LET withUsage == usage # NoObject
        cost ==
            IF withUsage /\ config.costPer1kTokens # NoObject
            THEN RatAdd(m.totalCost,
                    RatAdd(RatMul(Rat(usage.inputTokens, 1000), config.costPer1kTokens.input),
                           RatMul(Rat(usage.outputTokens, 1000), config.costPer1kTokens.output)))
            ELSE m.totalCost
    IN  [m EXCEPT
            !.totalRequests = @ + 1,
            !.successfulRequests = IF success THEN @ + 1 ELSE @,
            !.failedRequests = IF success THEN @ ELSE @ + 1,
            !.totalInputTokens = IF withUsage THEN @ + usage.inputTokens ELSE @,
            !.totalOutputTokens = IF withUsage THEN @ + usage.outputTokens ELSE @,
            !.totalTokensUsed = IF withUsage THEN @ + usage.totalTokens ELSE @,
            !.totalCost = cost,
            !.averageResponseTime = RatMul(RatAdd(@, RatInt(responseTime)), <<1, 2>>),
            !.lastUsed = "set"]

\* An updateMetrics that took the configured cost for the cost of one token.
UpdateMetricsCostPerToken(m, config, success, responseTime, usage) ==
    LET n == m.totalRequests + 1
        withUsage == usage # NoObject
        cost ==
            IF withUsage /\ config.costPer1kTokens # NoObject
            THEN RatAdd(m.totalCost,
                    RatAdd(RatMul(RatInt(usage.inputTokens), config.costPer1kTokens.input),
                           RatMul(RatInt(usage.outputTokens), config.costPer1kTokens.output)))
            ELSE m.totalCost
        totalResponseTimes ==
            RatAdd(RatMul(m.averageResponseTime, RatInt(n - 1)), RatInt(responseTime))
    IN  [m EXCEPT
            !.totalRequests = n,
            !.successfulRequests = IF success THEN @ + 1 ELSE @,
            !.failedRequests = IF success THEN @ ELSE @ + 1,
            !.totalInputTokens = IF withUsage THEN @ + usage.inputTokens ELSE @,
            !.totalOutputTokens = IF withUsage THEN @ + usage.outputTokens ELSE @,
            !.totalTokensUsed = IF withUsage THEN @ + usage.totalTokens ELSE @,
            !.totalCost = cost,
            !.averageResponseTime = RatMul(totalResponseTimes, Rat(1, n)),
            !.lastUsed = "set"]

UpdateMetricsExact(m, config, success, responseTime, usage) ==
    LET n == m.totalRequests + 1
        withUsage == usage # NoObject
        cost ==
            IF withUsage /\ config.costPer1kTokens # NoObject
            THEN RatAdd(m.totalCost,
                    RatAdd(RatMul(Rat(usage.inputTokens, 1000), config.costPer1kTokens.input),
                           RatMul(Rat(usage.outputTokens, 1000), config.costPer1kTokens.output)))
            ELSE m.totalCost
        totalResponseTimes ==
            RatAdd(RatMul(m.averageResponseTime, RatInt(n - 1)), RatInt(responseTime))
    IN  [m EXCEPT
            !.totalRequests = n,
            !.successfulRequests = IF success THEN @ + 1 ELSE @,
            !.failedRequests = IF success THEN @ ELSE @ + 1,
            !.totalInputTokens = IF withUsage THEN @ + usage.inputTokens ELSE @,
            !.totalOutputTokens = IF withUsage THEN @ + usage.outputTokens ELSE @,
            !.totalTokensUsed = IF withUsage THEN @ + usage.totalTokens ELSE @,
            !.totalCost = cost,
            !.averageResponseTime = RatMul(totalResponseTimes, Rat(1, n)),
            !.lastUsed = "set"]

\* updateMetrics; in the saturating specification the metrics of a provider
\* are no longer followed once its totalRequests has reached MaxCount.
UpdateMetrics(m, config, success, responseTime, usage, exact) ==
    IF exact \/ m.totalRequests < MaxCount
    THEN UpdateMetricsExact(m, config, success, responseTime, usage)
    ELSE m

\* --------------------------------------------------------- selectProvider
\* A filter without the rate-limit test.
EligibleIgnoringRateLimit(p, contextSize) ==
    /\ providers[p].config.enabled
    /\ ~(contextSize > providers[p].config.contextWindow)

\* A filter without the enabled test.
EligibleIgnoringEnabled(p, contextSize) ==
    LET remaining == providers[p].metrics.rateLimitRemaining
        threshold == routingConfig.rateLimitThreshold
    IN  /\ ~(contextSize > providers[p].config.contextWindow)
        /\ remaining # NoNumber =>
               ~RatLess(Rat(threshold[2] - threshold[1], threshold[2]),
                        Rat(remaining[2] - remaining[1], remaining[2]))

\* The filter of selectProvider.
Eligible(p, contextSize) ==
    LET provider == providers[p]
        remaining == provider.metrics.rateLimitRemaining
        rateLimitUsage ==
            IF remaining # NoNumber
            THEN Rat(remaining[2] - remaining[1], remaining[2])
            ELSE <<0, 1>>
        threshold == routingConfig.rateLimitThreshold
    IN  /\ provider.config.enabled
        /\ ~(contextSize > provider.config.contextWindow)
        /\ ~RatLess(Rat(threshold[2] - threshold[1], threshold[2]), rateLimitUsage)

\* A comparator score without the context-size bonus.
ScoreWithoutContextBonus(a, b, taskComplexity, contextSize) ==
    LET pa == providers[a]
        bonusA == IF /\ taskComplexity >= routingConfig.taskComplexityThreshold
                     /\ pa.config.contextWindow > LargeContextWindow
                  THEN 2 ELSE 0
        successRate ==
            IF pa.metrics.totalRequests > 0
            THEN Rat(pa.metrics.successfulRequests, pa.metrics.totalRequests)
            ELSE <<1, 1>>
        avgA == pa.metrics.averageResponseTime
        avgB == providers[b].metrics.averageResponseTime
        latency ==
            IF avgA[1] > 0 /\ avgB[1] > 0
            THEN RatMul(Rat(avgA[2], avgA[1]), <<1, 2>>)
            ELSE <<0, 1>>
    IN  RatAdd(RatAdd(RatInt(bonusA + pa.config.priority), RatMul(successRate, RatInt(2))),
               latency)

\* aScore of the comparator when a is compared with b (the latency term is
\* added only when both averages are positive).
Score(a, b, taskComplexity, contextSize) ==
    LET pa == providers[a]
        large == pa.config.contextWindow > LargeContextWindow
        bonusA == IF taskComplexity >= routingConfig.taskComplexityThreshold /\ large
                  THEN 2 ELSE 0
        bonusB == IF contextSize >= routingConfig.contextSizeThreshold /\ large
                  THEN 3 ELSE 0
        successRate ==
            IF pa.metrics.totalRequests > 0
            THEN Rat(pa.metrics.successfulRequests, pa.metrics.totalRequests)
            ELSE <<1, 1>>
        avgA == pa.metrics.averageResponseTime
        avgB == providers[b].metrics.averageResponseTime
        latency ==
            IF avgA[1] > 0 /\ avgB[1] > 0
            THEN RatMul(Rat(avgA[2], avgA[1]), <<1, 2>>)
            ELSE <<0, 1>>
    IN  RatAdd(RatAdd(RatInt(bonusA + bonusB + pa.config.priority),
                      RatMul(successRate, RatInt(2))),
               latency)

\* A comparator that returned aScore - bScore.
BeforeAscending(a, b, taskComplexity, contextSize) ==
    RatLess(Score(a, b, taskComplexity, contextSize),
            Score(b, a, taskComplexity, contextSize))

\* compare(a, b) < 0 of the sort comparator (bScore - aScore): a goes first.
Before(a, b, taskComplexity, contextSize) ==
    RatLess(Score(b, a, taskComplexity, contextSize),
            Score(a, b, taskComplexity, contextSize))

\* A sort that puts an element before those it ties with.
RECURSIVE InsertSortedUnstable(_, _, _, _)
InsertSortedUnstable(s, x, taskComplexity, contextSize) ==
    IF s = <<>> THEN <<x>>
    ELSE IF ~Before(Head(s), x, taskComplexity, contextSize)
         THEN <<x>> \o s
         ELSE <<Head(s)>> \o InsertSortedUnstable(Tail(s), x, taskComplexity, contextSize)

\* Array.prototype.sort on a short array: stable insertion of each element.
RECURSIVE InsertSorted(_, _, _, _)
InsertSorted(s, x, taskComplexity, contextSize) ==
    IF s = <<>> THEN <<x>>
    ELSE IF Before(x, Head(s), taskComplexity, contextSize)
         THEN <<x>> \o s
         ELSE <<Head(s)>> \o InsertSorted(Tail(s), x, taskComplexity, contextSize)

RECURSIVE SortProviders(_, _, _)
SortProviders(s, taskComplexity, contextSize) ==
    IF s = <<>> THEN <<>>
    ELSE InsertSorted(
            SortProviders(SubSeq(s, 1, Len(s) - 1), taskComplexity, contextSize),
            s[Len(s)], taskComplexity, contextSize)

\* Array.from(this.providers.keys()): the registered providers, in the order
\* of their registration.
Registered == SelectSeq(ProviderOrder, LAMBDA p : p \in DOMAIN providers)

\* A router without the preferred-provider step.
selectProviderIgnoringPreferred(context) ==
    LET eligibleProviders ==
            SortProviders(SelectSeq(Registered, LAMBDA p : Eligible(p, context.contextSize)),
                          context.taskComplexity, context.contextSize)
    IN  IF Len(eligibleProviders) > 0 THEN eligibleProviders[1] ELSE "null"

\* A router that falls back on the first registered provider when it has no
\* candidate.
selectProviderDefaulting(context) ==
    LET preferred == context.preferredProvider
        eligibleProviders ==
            SortProviders(SelectSeq(Registered, LAMBDA p : Eligible(p, context.contextSize)),
                          context.taskComplexity, context.contextSize)
    IN  IF /\ preferred \in DOMAIN providers
           /\ providers[preferred].config.enabled
           /\ context.contextSize <= providers[preferred].config.contextWindow
        THEN preferred
        ELSE IF Len(eligibleProviders) > 0 THEN eligibleProviders[1] ELSE ProviderOrder[1]

selectProvider(context) ==
    LET contextSize == context.contextSize
        preferred == context.preferredProvider
        eligibleProviders ==
            SortProviders(SelectSeq(Registered, LAMBDA p : Eligible(p, contextSize)),
                          context.taskComplexity, contextSize)
    IN  IF /\ preferred # Undefined
           /\ preferred \in DOMAIN providers
           /\ providers[preferred].config.enabled
           /\ contextSize <= providers[preferred].config.contextWindow
        THEN preferred
        ELSE IF Len(eligibleProviders) > 0 THEN eligibleProviders[1] ELSE "null"

\* Fallback candidates that do not leave out the provider that just failed.
FallbackProvidersWithFailed(providerName) ==
    SelectSeq(Registered, LAMBDA name : providers[name].config.enabled)

\* The fallback candidates of attemptWithProvider's catch block.
FallbackProviders(providerName) ==
    SelectSeq(Registered,
              LAMBDA name : name # providerName /\ providers[name].config.enabled)

\* ------------------------------------------------------------------ state
\* The units of work handed to queueRequest, numbered in the order of the calls.
MaxUnits == 3
Units == 1..MaxUnits

\* No unit of work has been handed to queueRequest.
QueuesIdle ==
    /\ requestQueue = [p \in Providers |-> <<>>]
    /\ isProcessingQueue = [p \in Providers |-> FALSE]
    /\ loops = [p \in Providers |-> {}]
    /\ units = [u \in Units |-> [status |-> "new", provider |-> Undefined]]

NoResult == [kind |-> "none"]
\* No routing decision is on record.
NoSelection == [provider |-> Undefined]

InitCalls(calls) ==
    /\ providers = [p \in Providers |->
                       [config |-> InitialConfig(p), metrics |-> InitialMetrics]]
    /\ routingConfig \in {[DefaultRoutingConfig EXCEPT !.enableFallback = f] : f \in BOOLEAN}
    /\ behaviour \in Worlds
    /\ pc = [c \in calls |-> "idle"]
    /\ current = [c \in calls |-> "null"]
    /\ attempt = [c \in calls |-> 0]
    /\ lastError = [c \in calls |-> "none"]
    /\ delays = [c \in calls |-> <<>>]
    /\ pending = [c \in calls |-> NoObject]
    /\ attempted = [c \in calls |-> <<>>]
    /\ result = [c \in calls |-> NoResult]
    /\ selection = NoSelection
    /\ log = <<>>
    /\ QueuesIdle

Init == InitCalls(Calls)
LiveInit == InitCalls(LiveCalls)

\* The per-call variables before any call has started.
IdleCalls(calls) ==
    /\ pc = [c \in calls |-> "idle"]
    /\ current = [c \in calls |-> "null"]
    /\ attempt = [c \in calls |-> 0]
    /\ lastError = [c \in calls |-> "none"]
    /\ delays = [c \in calls |-> <<>>]
    /\ pending = [c \in calls |-> NoObject]
    /\ attempted = [c \in calls |-> <<>>]
    /\ result = [c \in calls |-> NoResult]

\* ---------------------------------------------------- the router's inputs
\* ProviderConfig values a registry can hold (updateProviderConfig can
\* disable a provider).
RouterConfigs ==
    [enabled : BOOLEAN, priority : {1, 2}, contextWindow : {128000, 200000},
     model : {"m1"}, costPer1kTokens : {NoObject}]

\* What a provider has been through: requests, successes among them, and the
\* running average of the response times.
RouterHistories ==
    {[totalRequests |-> 0, successfulRequests |-> 0, averageResponseTime |-> <<0, 1>>],
     [totalRequests |-> 1, successfulRequests |-> 1, averageResponseTime |-> <<100, 1>>],
     [totalRequests |-> 1, successfulRequests |-> 1, averageResponseTime |-> <<300, 1>>],
     [totalRequests |-> 2, successfulRequests |-> 1, averageResponseTime |-> <<100, 1>>]}

\* metrics.rateLimitRemaining: absent, or a fraction.  No method of the
\* manager writes the field; getMetrics() hands out the metrics objects
\* themselves, and the field is theirs to set.
RateLimits == {NoNumber, <<1, 10>>, <<1, 2>>}

\* The ProviderMetrics of a provider with that history (a failed request has
\* counted one error, here a 500).
RouterMetrics ==
    {[InitialMetrics EXCEPT
         !.totalRequests = h.totalRequests,
         !.successfulRequests = h.successfulRequests,
         !.failedRequests = h.totalRequests - h.successfulRequests,
         !.averageResponseTime = h.averageResponseTime,
         !.lastUsed = IF h.totalRequests > 0 THEN "set" ELSE Undefined,
         !.rateLimitRemaining = r,
         !.errorCounts = [@ EXCEPT !["500"] = h.totalRequests - h.successfulRequests]] :
       h \in RouterHistories, r \in RateLimits}

RouterCalls == {1}

\* A manager in any of these states, about to route one call.
RouterInit ==
    /\ providers \in [Providers -> [config : RouterConfigs, metrics : RouterMetrics]]
    /\ routingConfig = DefaultRoutingConfig
    /\ behaviour = [p \in Providers |-> {"ok"}]
    /\ IdleCalls(RouterCalls)
    /\ selection = NoSelection
    /\ log = <<>>
    /\ QueuesIdle

\* Transports for the executor: one provider fails every call in one way,
\* whichever way that is, or each of its calls ends in any way at all; the
\* other provider answers.
ExecutorWorlds ==
    {[p \in Providers |-> IF p = u THEN b ELSE {"ok"}] :
        u \in Providers, b \in {{f} : f \in Faults} \cup {Outcomes}}

\* One chat() call against such transports.
ExecutorCalls == {1}

ExecutorInit ==
    /\ providers = [p \in Providers |->
                       [config |-> InitialConfig(p), metrics |-> InitialMetrics]]
    /\ routingConfig \in {[DefaultRoutingConfig EXCEPT !.enableFallback = f] : f \in BOOLEAN}
    /\ behaviour \in ExecutorWorlds
    /\ IdleCalls(ExecutorCalls)
    /\ selection = NoSelection
    /\ log = <<>>
    /\ QueuesIdle

\* The calls of the behaviour.
Started == DOMAIN pc

\* In the exact specification a call that has used up the recorded history is
\* not followed further.
Followed(c, exact) == exact => Len(attempted[c]) < MaxAttempted

\* attemptWithProvider(providerName) up to its first await: executeWithRetry
\* enters its loop and fn() starts the transport call and the timeout timer.
StartAttempt(c, providerName) ==
    /\ pc' = [pc EXCEPT ![c] = "inflight"]
    /\ current' = [current EXCEPT ![c] = providerName]
    /\ attempt' = [attempt EXCEPT ![c] = 0]
    /\ lastError' = [lastError EXCEPT ![c] = "none"]
    /\ delays' = [delays EXCEPT ![c] = <<>>]
    /\ pending' = [pending EXCEPT ![c] = NoObject]

\* A chat() whose routing marked the provider it selected as used.
ChatMarkingSelected(c, context) ==
    /\ pc[c] = "idle"
    /\ LET selectedProviderName == selectProvider(context)
       IN  IF selectedProviderName = "null"
           THEN /\ pc' = [pc EXCEPT ![c] = "rejected"]
                /\ result' = [result EXCEPT ![c] =
                                 [kind |-> "error", error |-> "No eligible provider"]]
                /\ UNCHANGED <<current, attempt, lastError, delays, pending, providers>>
           ELSE /\ StartAttempt(c, selectedProviderName)
                /\ providers' = [providers EXCEPT ![selectedProviderName].metrics.lastUsed = "set"]
                /\ UNCHANGED result
    /\ UNCHANGED <<routingConfig, behaviour, attempted>>

\* chat(request, context): selectProvider, then attemptWithProvider.  (The
\* actions of a call say nothing of the log, and this one nothing of the
\* routing decision on record: the specifications do.)
Chat(c, context) ==
    /\ pc[c] = "idle"
    /\ LET selectedProviderName == selectProvider(context)
       IN  IF selectedProviderName = "null"
           THEN /\ pc' = [pc EXCEPT ![c] = "rejected"]
                /\ result' = [result EXCEPT ![c] =
                                 [kind |-> "error", error |-> "No eligible provider"]]
                /\ UNCHANGED <<current, attempt, lastError, delays, pending>>
           ELSE /\ StartAttempt(c, selectedProviderName)
                /\ UNCHANGED result
    /\ UNCHANGED <<providers, routingConfig, behaviour, attempted>>

\* The transport call wins the race and fn() resolves: executeWithRetry returns.
TransportResolves(c, usage, exact) ==
    /\ pc[c] = "inflight"
    /\ Followed(c, exact)
    /\ "ok" \in behaviour[current[c]]
    /\ pc' = [pc EXCEPT ![c] = "succeeded"]
    /\ pending' = [pending EXCEPT ![c] = usage]
    /\ UNCHANGED <<providers, routingConfig, behaviour, current, attempt, lastError,
                   delays, attempted, result, selection>>

\* fn() rejects (transport error, or the timeout timer wins the race): the
\* catch block of executeWithRetry counts the error and waits or throws.
TransportRejects(c, error, exact) ==
    /\ pc[c] = "inflight"
    /\ Followed(c, exact)
    /\ error \in behaviour[current[c]] \ {"ok"}
    /\ providers' = [providers EXCEPT ![current[c]].metrics =
                        RecordError(@, error, exact)]
    /\ lastError' = [lastError EXCEPT ![c] = error]
    /\ LET policy == RetryPolicy(error, attempt[c])
       IN  IF policy.retry
           THEN /\ pc' = [pc EXCEPT ![c] = "delay"]
                /\ delays' = [delays EXCEPT ![c] = Append(@, policy.delay)]
           ELSE /\ pc' = [pc EXCEPT ![c] = "failed"]
                /\ UNCHANGED delays
    /\ UNCHANGED <<routingConfig, behaviour, current, attempt, pending, attempted, result,
                   selection>>

\* The retry delay has passed: `continue`, and fn() is called again.
RetryTimerFires(c) ==
    /\ pc[c] = "delay"
    /\ pc' = [pc EXCEPT ![c] = "inflight"]
    /\ attempt' = [attempt EXCEPT ![c] = @ + 1]
    /\ UNCHANGED <<providers, routingConfig, behaviour, current, lastError, delays,
                   pending, attempted, result, selection>>

\* attemptWithProvider naming, in its response, the provider chat() selected
\* rather than the one it was called with.
AttemptSucceededTaggingSelected(c, responseTime, exact) ==
    /\ pc[c] = "succeeded"
    /\ providers' = [providers EXCEPT ![current[c]].metrics =
                        UpdateMetrics(@, providers[current[c]].config, TRUE,
                                      responseTime, pending[c], exact)]
    /\ pc' = [pc EXCEPT ![c] = "done"]
    /\ result' = [result EXCEPT ![c] =
                     [kind |-> "response",
                      provider |-> IF Len(attempted[c]) > 0
                                   THEN attempted[c][1].providerName
                                   ELSE current[c]]]
    /\ UNCHANGED <<routingConfig, behaviour, current, attempt, lastError, delays,
                   pending, attempted, selection>>

\* attemptWithProvider after executeWithRetry has returned.
AttemptSucceeded(c, responseTime, exact) ==
    /\ pc[c] = "succeeded"
    /\ providers' = [providers EXCEPT ![current[c]].metrics =
                        UpdateMetrics(@, providers[current[c]].config, TRUE,
                                      responseTime, pending[c], exact)]
    /\ pc' = [pc EXCEPT ![c] = "done"]
    /\ result' = [result EXCEPT ![c] =
                     [kind |-> "response", provider |-> current[c]]]
    /\ UNCHANGED <<routingConfig, behaviour, current, attempt, lastError, delays,
                   pending, attempted, selection>>

\* The history of the call: the provider that failed and its error.
RecordAttempt(history, providerName, error, exact) ==
    IF exact \/ Len(history) < MaxAttempted
    THEN Append(history, [providerName |-> providerName, error |-> error])
    ELSE history

\* A catch block that turned to a fallback whatever enableFallback says.
FallsBackRegardless(fallbackProviders) ==
    /\ Cardinality(DOMAIN providers) > 1
    /\ Len(fallbackProviders) > 0

\* The conditions under which the catch block turns to a fallback provider.
FallsBack(fallbackProviders) ==
    /\ routingConfig.enableFallback
    /\ Cardinality(DOMAIN providers) > 1
    /\ Len(fallbackProviders) > 0

\* The catch block of attemptWithProvider.
AttemptFailed(c, responseTime, exact) ==
    LET providerName == current[c]
        fallbackProviders == FallbackProviders(providerName)
    IN  /\ pc[c] = "failed"
        /\ Followed(c, exact)
        /\ providers' = [providers EXCEPT ![providerName].metrics =
                            UpdateMetrics(@, providers[providerName].config, FALSE,
                                          responseTime, NoObject, exact)]
        /\ attempted' = [attempted EXCEPT ![c] =
                            RecordAttempt(@, providerName, lastError[c], exact)]
        /\ IF FallsBack(fallbackProviders)
           THEN /\ StartAttempt(c, fallbackProviders[1])
                /\ UNCHANGED result
           ELSE /\ pc' = [pc EXCEPT ![c] = "rejected"]
                /\ result' = [result EXCEPT ![c] =
                                 [kind |-> "error", error |-> lastError[c]]]
                /\ UNCHANGED <<current, attempt, lastError, delays, pending>>
        /\ UNCHANGED <<routingConfig, behaviour, selection>>

\* One step of a call that is past its start.
CallStep(c, exact) ==
    /\ \/ \E usage \in Usages : TransportResolves(c, usage, exact)
       \/ \E error \in Faults : TransportRejects(c, error, exact)
       \/ RetryTimerFires(c)
       \/ \E responseTime \in Latencies : AttemptSucceeded(c, responseTime, exact)
       \/ \E responseTime \in Latencies : AttemptFailed(c, responseTime, exact)
    /\ UNCHANGED <<log, queueVars>>

Next ==
    \/ \E c \in Started, context \in Contexts : Chat(c, context) /\ UNCHANGED <<selection, log, queueVars>>
    \/ \E c \in Started, usage \in Usages : TransportResolves(c, usage, TRUE) /\ UNCHANGED <<log, queueVars>>
    \/ \E c \in Started, error \in Faults : TransportRejects(c, error, TRUE) /\ UNCHANGED <<log, queueVars>>
    \/ \E c \in Started : RetryTimerFires(c) /\ UNCHANGED <<log, queueVars>>
    \/ \E c \in Started, responseTime \in Latencies :
          AttemptSucceeded(c, responseTime, TRUE) /\ UNCHANGED <<log, queueVars>>
    \/ \E c \in Started, responseTime \in Latencies :
          AttemptFailed(c, responseTime, TRUE) /\ UNCHANGED <<log, queueVars>>

\* The program with every counter and history exact, cut off at the bounds.
Spec == Init /\ [][Next]_vars

\* The same program, one call at a time, against every sequence of outcomes
\* a transport can produce.
ExecutorSpec == ExecutorInit /\ [][Next]_vars

\* chat() up to the start of the transport call, with the routing decision
\* of its selectProvider call put on record.
Route(c, context) ==
    /\ Chat(c, context)
    /\ selection' = [context |-> context, provider |-> selectProvider(context)]
    /\ UNCHANGED <<log, queueVars>>

RouterNext == \E c \in Started, context \in Contexts : Route(c, context)

\* selectProvider, and chat()'s reaction to it, on every state of the registry.
RouterSpec == RouterInit /\ [][RouterNext]_vars

NextSaturating ==
    \/ \E c \in Started, context \in Contexts : Chat(c, context) /\ UNCHANGED <<selection, log, queueVars>>
    \/ \E c \in Started, usage \in Usages : TransportResolves(c, usage, FALSE) /\ UNCHANGED <<log, queueVars>>
    \/ \E c \in Started, error \in Faults : TransportRejects(c, error, FALSE) /\ UNCHANGED <<log, queueVars>>
    \/ \E c \in Started : RetryTimerFires(c) /\ UNCHANGED <<log, queueVars>>
    \/ \E c \in Started, responseTime \in Latencies :
          AttemptSucceeded(c, responseTime, FALSE) /\ UNCHANGED <<log, queueVars>>
    \/ \E c \in Started, responseTime \in Latencies :
          AttemptFailed(c, responseTime, FALSE) /\ UNCHANGED <<log, queueVars>>

\* The program with counters and histories that stop at their bounds, so that
\* no call is ever held up by a bound.  The event loop runs every job that is
\* ready: a settled transport call, a fired timer, a resumed await.
LiveSpec ==
    /\ LiveInit
    /\ [][NextSaturating]_vars
    /\ \A c \in LiveCalls : WF_vars(CallStep(c, FALSE))

\* The executor specification with a fair event loop.
ExecutorLiveSpec ==
    /\ ExecutorInit
    /\ [][NextSaturating]_vars
    /\ \A c \in ExecutorCalls : WF_vars(CallStep(c, FALSE))

\* ------------------------------------------------ the manager's operations
\* A manager as its constructor leaves it, with no call under way.
ManagerInit ==
    /\ providers = [p \in Providers |->
                       [config |-> InitialConfig(p), metrics |-> InitialMetrics]]
    /\ routingConfig = DefaultRoutingConfig
    /\ behaviour = [p \in Providers |-> {"ok"}]
    /\ IdleCalls({})
    /\ selection = NoSelection
    /\ log = <<>>
    /\ QueuesIdle

\* The variables of the calls.  (The operations of the manager say nothing
\* of the log: the specifications do.)
callVars == <<behaviour, pc, current, attempt, lastError, delays, pending, attempted,
              result, selection>>

\* updateMetrics(providerName, success, responseTime, usage) as an execution
\* of chat() (or of testProvider, which calls chat()) reaches it: with the
\* usage of the response after a success, without usage after a failure.
UpdateMetricsCall(p, success, responseTime, usage) ==
    /\ success \/ usage = NoObject
    /\ providers' = [providers EXCEPT ![p].metrics =
                        UpdateMetrics(@, providers[p].config, success, responseTime,
                                      usage, TRUE)]
    /\ UNCHANGED <<routingConfig, callVars>>

\* { ...config, ...updates }
Spread(config, updates) ==
    [k \in DOMAIN config |-> IF k \in DOMAIN updates THEN updates[k] ELSE config[k]]

ConfigUpdates == {[enabled |-> FALSE], [enabled |-> TRUE], [priority |-> 2]}
RoutingUpdates == {[enableFallback |-> FALSE], [enableFallback |-> TRUE]}

\* updateProviderConfig(name, updates)
UpdateProviderConfig(name, updates) ==
    /\ providers' = IF name \in DOMAIN providers
                    THEN [providers EXCEPT ![name].config = Spread(@, updates)]
                    ELSE providers
    /\ UNCHANGED <<routingConfig, callVars>>

\* updateRoutingConfig(updates)
UpdateRoutingConfig(updates) ==
    /\ routingConfig' = Spread(routingConfig, updates)
    /\ UNCHANGED <<providers, callVars>>

\* AIService.updateSettings(settings) with the provider list of the start:
\* getProviderManager() returns a new AIProviderManager from now on.
UpdateSettings ==
    /\ providers' = [p \in Providers |->
                        [config |-> InitialConfig(p), metrics |-> InitialMetrics]]
    /\ routingConfig' = DefaultRoutingConfig
    /\ UNCHANGED callVars

\* A caller of getMetrics() or getProviderMetrics() assigns to
\* rateLimitRemaining of an element of the value it was given: the element is
\* provider.metrics itself.
HolderWrites(p, remaining) ==
    /\ providers' = [providers EXCEPT ![p].metrics.rateLimitRemaining = remaining]
    /\ UNCHANGED <<routingConfig, callVars>>

\* An operation is put on record.
Logged(entry) ==
    /\ Len(log) < MaxLog
    /\ log' = Append(log, entry)
    /\ UNCHANGED queueVars

\* updateMetrics on record with its arguments.
UpdateMetricsLogged(p, success, responseTime, usage) ==
    /\ UpdateMetricsCall(p, success, responseTime, usage)
    /\ Logged([op |-> "updateMetrics", provider |-> p, success |-> success,
               responseTime |-> responseTime, usage |-> usage])

ManagerNext ==
    \/ \E p \in Providers, success \in BOOLEAN, responseTime \in Latencies, usage \in Usages :
          UpdateMetricsLogged(p, success, responseTime, usage)
    \/ \E name \in Providers \cup {"X"}, updates \in ConfigUpdates :
          /\ UpdateProviderConfig(name, updates)
          /\ Logged([op |-> "updateProviderConfig", provider |-> name])
    \/ \E updates \in RoutingUpdates :
          UpdateRoutingConfig(updates) /\ Logged([op |-> "updateRoutingConfig"])
    \/ UpdateSettings /\ Logged([op |-> "updateSettings"])
    \/ \E p \in Providers, remaining \in RateLimits :
          HolderWrites(p, remaining) /\ Logged([op |-> "write", provider |-> p])

\* The operations of the manager and of its owner, in any order.
ManagerSpec == ManagerInit /\ [][ManagerNext]_vars

\* ------------------------------------------------- the race with the timer
\* One provider never answers in time, or only sometimes; the other answers.
RaceWorlds ==
    {[p \in Providers |-> IF p = u THEN b ELSE {"ok"}] :
        u \in Providers, b \in {{"timeout"}, {"timeout", "ok"}}}

RaceInit ==
    /\ providers = [p \in Providers |->
                       [config |-> InitialConfig(p), metrics |-> InitialMetrics]]
    /\ routingConfig \in {[DefaultRoutingConfig EXCEPT !.enableFallback = f] : f \in BOOLEAN}
    /\ behaviour \in RaceWorlds
    /\ IdleCalls(Calls)
    /\ selection = NoSelection
    /\ log = <<>>
    /\ QueuesIdle

\* The entries of the log with that operation and that provider.
Entries(op, p) == SelectSeq(log, LAMBDA entry : entry.op = op /\ entry.provider = p)

\* fn() rejects; when it is the timeout timer that has won the race, the
\* transport call goes on with nobody waiting for it.
TransportRejectsOrLoses(c, error) ==
    /\ TransportRejects(c, error, TRUE)
    /\ log' = IF error = "timeout"
              THEN Append(log, [op |-> "abandoned", provider |-> current[c]])
              ELSE log
    /\ UNCHANGED queueVars

\* A transport call that lost the race settled with a response and was
\* recorded like one that won it.
LateResponseRecorded(p, usage) ==
    /\ Len(Entries("late response", p)) < Len(Entries("abandoned", p))
    /\ log' = Append(log, [op |-> "late response", provider |-> p])
    /\ providers' = [providers EXCEPT ![p].metrics =
                        UpdateMetrics(@, providers[p].config, TRUE, 0, usage, TRUE)]
    /\ UNCHANGED <<routingConfig, callVars>>
    /\ UNCHANGED queueVars

\* A transport call that lost the race settles with a response: chatPromise
\* resolves, and the promise of Promise.race, settled by the timer, stays as
\* it is; no code of the manager runs.
LateResponseArrives(p, usage) ==
    /\ Len(Entries("late response", p)) < Len(Entries("abandoned", p))
    /\ log' = Append(log, [op |-> "late response", provider |-> p])
    /\ UNCHANGED <<providers, routingConfig, callVars>>
    /\ UNCHANGED queueVars

RaceNext ==
    \/ \E c \in Started, context \in Contexts : Chat(c, context) /\ UNCHANGED <<selection, log, queueVars>>
    \/ \E c \in Started, usage \in Usages : TransportResolves(c, usage, TRUE) /\ UNCHANGED <<log, queueVars>>
    \/ \E c \in Started, error \in Faults : TransportRejectsOrLoses(c, error)
    \/ \E c \in Started, responseTime \in Latencies :
          AttemptSucceeded(c, responseTime, TRUE) /\ UNCHANGED <<log, queueVars>>
    \/ \E c \in Started, responseTime \in Latencies :
          AttemptFailed(c, responseTime, TRUE) /\ UNCHANGED <<log, queueVars>>
    \/ \E p \in Providers, usage \in Usages : LateResponseArrives(p, usage)

\* chat() against transports that lose the race with the timeout timer and
\* answer afterwards.
RaceSpec == RaceInit /\ [][RaceNext]_vars

\* ---- a configuration changed while a call is in flight ----

\* callProviderAPI reads provider.config when it is invoked: the invocation on
\* record, with the model it sends.
Invocation(c, p) ==
    [op |-> "callProviderAPI", call |-> c, provider |-> p,
     model |-> providers[p].config.model]

\* chat() on record, with the configurations that are in force when it starts.
ChatLogged(c, context) ==
    /\ Chat(c, context)
    /\ log' = LET selectedProviderName == selectProvider(context)
                  started == Append(log, [op |-> "chat", call |-> c,
                                          models |-> [p \in Providers |->
                                                         providers[p].config.model]])
              IN  IF selectedProviderName = "null"
                  THEN started
                  ELSE Append(started, Invocation(c, selectedProviderName))
    /\ UNCHANGED selection
    /\ UNCHANGED queueVars

\* executeWithRetry calls fn() again.
RetryLogged(c) ==
    /\ RetryTimerFires(c)
    /\ log' = Append(log, Invocation(c, current[c]))
    /\ UNCHANGED queueVars

\* The catch block of attemptWithProvider, and the first invocation of the
\* fallback provider if it turns to one.
AttemptFailedLogged(c, responseTime) ==
    /\ AttemptFailed(c, responseTime, TRUE)
    /\ log' = IF pc'[c] = "inflight" THEN Append(log, Invocation(c, current'[c])) ELSE log
    /\ UNCHANGED queueVars

ModelUpdates == {[model |-> "m1"], [model |-> "m2"]}

ReconfigNext ==
    \/ \E c \in Started, context \in Contexts : ChatLogged(c, context)
    \/ \E c \in Started, usage \in Usages : TransportResolves(c, usage, TRUE) /\ UNCHANGED <<log, queueVars>>
    \/ \E c \in Started, error \in Faults : TransportRejects(c, error, TRUE) /\ UNCHANGED <<log, queueVars>>
    \/ \E c \in Started : RetryLogged(c)
    \/ \E c \in Started, responseTime \in Latencies :
          AttemptSucceeded(c, responseTime, TRUE) /\ UNCHANGED <<log, queueVars>>
    \/ \E c \in Started, responseTime \in Latencies : AttemptFailedLogged(c, responseTime)
    \/ \E name \in Providers, updates \in ModelUpdates :
          UpdateProviderConfig(name, updates) /\ UNCHANGED <<log, queueVars>>

\* One call, and the configuration of the providers changed at any moment of it.
ReconfigSpec == ExecutorInit /\ [][ReconfigNext]_vars

\* ---- loading a provider list ----

\* The longest provider list that is loaded.
MaxProfiles == 2

\* The provider profiles the settings schema admits, as far as loading reads
\* them.  An optional string is absent, empty or present.
OptionalStrings == {Undefined, "", "set"}
Profiles ==
    [type : {"openai", "anthropic"}, enabled : BOOLEAN,
     azureDeploymentName : {Undefined}, azureApiVersion : {Undefined}]
    \cup
    [type : {"azure-openai"}, enabled : BOOLEAN,
     azureDeploymentName : OptionalStrings, azureApiVersion : OptionalStrings]

ProviderLists == UNION {[1..n -> Profiles] : n \in 0..MaxProfiles}

\* !value of an optional string.
Falsy(value) == value = Undefined \/ value = ""

\* initializeProvider that built the Azure client without looking at the
\* deployment name and the API version.
InitializeProviderUnchecked(config) ==
    IF config.type \in {"openai", "anthropic", "azure-openai"}
    THEN "none"
    ELSE "Unsupported provider type"

\* initializeProvider(config): the error it throws, or "none" when it registers
\* the provider.
InitializeProvider(config) ==
    CASE config.type = "openai" -> "none"
      [] config.type = "anthropic" -> "none"
      [] config.type = "azure-openai" ->
            IF Falsy(config.azureDeploymentName) \/ Falsy(config.azureApiVersion)
            THEN "Azure OpenAI requires deploymentName and apiVersion"
            ELSE "none"
      [] OTHER -> "Unsupported provider type"

\* The loop of the constructor from profile i on: the error that ends it, or
\* the providers registered at its end (a profile is known by its place in
\* the list).
RECURSIVE Construct(_, _, _)
Construct(providerConfigs, i, registered) ==
    IF i > Len(providerConfigs)
    THEN [error |-> "none", providers |-> registered]
    ELSE LET config == providerConfigs[i]
         IN  IF config.enabled
             THEN LET thrown == InitializeProvider(config)
                  IN  IF thrown # "none"
                      THEN [error |-> thrown, providers |-> {}]
                      ELSE Construct(providerConfigs, i + 1, registered \cup {i})
             ELSE Construct(providerConfigs, i + 1, registered)

\* new AIProviderManager(providerConfigs): the list and what became of it.
Load(providerConfigs) ==
    /\ log' = <<[op |-> "load", providerConfigs |-> providerConfigs,
                 outcome |-> Construct(providerConfigs, 1, {})]>>
    /\ UNCHANGED <<providers, routingConfig, callVars>>
    /\ UNCHANGED queueVars

\* The process loading one provider list.
LoadNext ==
    /\ log = <<>>
    /\ \E providerConfigs \in ProviderLists : Load(providerConfigs)

LoadSpec == ManagerInit /\ [][LoadNext]_vars

\* Date.now() - startTime of an execution, in ms.
ResponseTimes == {0, 100, 250}

MetricsNext ==
    \E p \in Providers, success \in BOOLEAN, responseTime \in ResponseTimes, usage \in Usages :
        UpdateMetricsLogged(p, success, responseTime, usage)

\* The executions of chat(), sequential or concurrent, as the sequence of
\* their updateMetrics calls (each call runs to its end before the next).
MetricsSpec == ManagerInit /\ [][MetricsNext]_vars

\* ---- testProvider ----

\* The length of the probe message testProvider sends.
ProbeLength == 47

\* The RequestContext of the probe as selectProvider completes it:
\* estimateTaskComplexity (one message, no keyword) in tenths, rounded down,
\* and estimateTokens, Math.ceil(text.length / 4).
ProbeContext(providerName) ==
    [taskComplexity |-> (ProbeLength * 3 + 2000) \div 10000,
     contextSize |-> (ProbeLength + 3) \div 4,
     preferredProvider |-> providerName]

\* testProvider(providerName) up to the first await of its chat().
TestProvider(c, providerName) ==
    /\ log = <<>>
    /\ Chat(c, ProbeContext(providerName))
    /\ log' = <<[op |-> "testProvider", call |-> c, providerName |-> providerName]>>
    /\ UNCHANGED selection
    /\ UNCHANGED queueVars

\* chat() has settled: testProvider returns from its try or from its catch.
TestProviderReturns(c) ==
    /\ Len(log) = 1
    /\ log[1].call = c
    /\ pc[c] \in {"done", "rejected"}
    /\ log' = Append(log, [op |-> "testProvider returns",
                           success |-> pc[c] = "done",
                           error |-> IF pc[c] = "done" THEN Undefined ELSE result[c].error])
    /\ UNCHANGED <<providers, routingConfig, callVars>>
    /\ UNCHANGED queueVars

TestNext ==
    \/ \E c \in Started, providerName \in Providers \cup {"X"} : TestProvider(c, providerName)
    \/ \E c \in Started, usage \in Usages : TransportResolves(c, usage, TRUE) /\ UNCHANGED <<log, queueVars>>
    \/ \E c \in Started, error \in Faults : TransportRejects(c, error, TRUE) /\ UNCHANGED <<log, queueVars>>
    \/ \E c \in Started : RetryTimerFires(c) /\ UNCHANGED <<log, queueVars>>
    \/ \E c \in Started, responseTime \in Latencies :
          AttemptSucceeded(c, responseTime, TRUE) /\ UNCHANGED <<log, queueVars>>
    \/ \E c \in Started, responseTime \in Latencies :
          AttemptFailed(c, responseTime, TRUE) /\ UNCHANGED <<log, queueVars>>
    \/ \E c \in Started : TestProviderReturns(c)

\* One testProvider call against every behaviour of the transports.
TestSpec == ExecutorInit /\ [][TestNext]_vars

\* ---- fallback ----

\* The registries a manager can be built with: the enabled profiles of its
\* provider list.
Registries == {[p \in names |-> [config |-> InitialConfig(p), metrics |-> InitialMetrics]] :
                  names \in (SUBSET Providers) \ {{}}}

FallbackInit ==
    /\ providers \in Registries
    /\ routingConfig \in {[DefaultRoutingConfig EXCEPT !.enableFallback = f] : f \in BOOLEAN}
    /\ behaviour \in ExecutorWorlds
    /\ IdleCalls(ExecutorCalls)
    /\ selection = NoSelection
    /\ log = <<>>
    /\ QueuesIdle

FallbackNext ==
    \/ \E c \in Started, context \in Contexts : Route(c, context)
    \/ \E c \in Started, usage \in Usages : TransportResolves(c, usage, TRUE) /\ UNCHANGED <<log, queueVars>>
    \/ \E c \in Started, error \in Faults : TransportRejects(c, error, TRUE) /\ UNCHANGED <<log, queueVars>>
    \/ \E c \in Started : RetryTimerFires(c) /\ UNCHANGED <<log, queueVars>>
    \/ \E c \in Started, responseTime \in Latencies :
          AttemptSucceeded(c, responseTime, TRUE) /\ UNCHANGED <<log, queueVars>>
    \/ \E c \in Started, responseTime \in Latencies :
          AttemptFailed(c, responseTime, TRUE) /\ UNCHANGED <<log, queueVars>>

\* One chat() call with its request context on record, on a registry of one
\* or two providers.
FallbackSpec == FallbackInit /\ [][FallbackNext]_vars

\* ---- queueRequest / processQueue ----

\* The queue fields of a ProviderInstance, and the processQueue invocations
\* that are suspended in their loop: each at `await request()` for the unit
\* it shifted, or in the 100 ms pacing delay after it.
Instance(p) ==
    [requestQueue |-> requestQueue[p], isProcessingQueue |-> isProcessingQueue[p],
     loops |-> loops[p], started |-> <<>>]

\* A loop that left without lowering isProcessingQueue.
LoopHeadKeepingFlag(instance) ==
    IF Len(instance.requestQueue) > 0
    THEN [instance EXCEPT
             !.requestQueue = Tail(@),
             !.loops = @ \cup {[at |-> "awaiting", unit |-> Head(instance.requestQueue)]},
             !.started = <<Head(instance.requestQueue)>>]
    ELSE instance

\* processQueue from the test of its while loop to its next await: it shifts
\* a unit and calls it, which starts the unit's work, or it leaves the loop
\* and lowers isProcessingQueue.  `instance.loops` holds the other loops.
LoopHead(instance) ==
    IF Len(instance.requestQueue) > 0
    THEN [instance EXCEPT
             !.requestQueue = Tail(@),
             !.loops = @ \cup {[at |-> "awaiting", unit |-> Head(instance.requestQueue)]},
             !.started = <<Head(instance.requestQueue)>>]
    ELSE [instance EXCEPT !.isProcessingQueue = FALSE]

\* processQueue without the test of isProcessingQueue.
ProcessQueueUnguarded(instance) ==
    LoopHead([instance EXCEPT !.isProcessingQueue = TRUE])

\* processQueue(providerName) up to its first await.
ProcessQueue(instance) ==
    IF instance.isProcessingQueue
    THEN instance
    ELSE LoopHead([instance EXCEPT !.isProcessingQueue = TRUE])

\* The fields of provider p become those of `instance`, and the units it
\* started are running.
Install(p, instance) ==
    /\ requestQueue' = [requestQueue EXCEPT ![p] = instance.requestQueue]
    /\ isProcessingQueue' = [isProcessingQueue EXCEPT ![p] = instance.isProcessingQueue]
    /\ loops' = [loops EXCEPT ![p] = instance.loops]

Running(status, started) ==
    [u \in Units |-> IF \E i \in 1..Len(started) : started[i] = u
                     THEN [status[u] EXCEPT !.status = "running"]
                     ELSE status[u]]

\* queueRequest(providerName, fn), fn being the unit of work numbered `unit`:
\* it throws for a name that is not registered; else it pushes the wrapper of
\* fn and calls processQueue.
QueueRequest(providerName, unit) ==
    /\ units[unit].status = "new"
    /\ \A u \in Units : u < unit => units[u].status # "new"
    /\ IF providerName \notin DOMAIN providers
       THEN /\ units' = [units EXCEPT ![unit] =
                            [status |-> "not found", provider |-> providerName]]
            /\ UNCHANGED <<requestQueue, isProcessingQueue, loops>>
       ELSE LET instance == ProcessQueue([Instance(providerName) EXCEPT
                                             !.requestQueue = Append(@, unit)])
            IN  /\ Install(providerName, instance)
                /\ units' = Running([units EXCEPT ![unit] =
                                        [status |-> "queued", provider |-> providerName]],
                                    instance.started)
    /\ UNCHANGED <<providers, routingConfig, callVars, log>>

\* A loop that a failing unit of work put an end to.
UnitSettlesEndingLoop(p, unit, success) ==
    /\ [at |-> "awaiting", unit |-> unit] \in loops[p]
    /\ units' = [units EXCEPT ![unit].status = IF success THEN "resolved" ELSE "rejected"]
    /\ loops' = [loops EXCEPT ![p] =
                    (@ \ {[at |-> "awaiting", unit |-> unit]})
                    \cup (IF success THEN {[at |-> "pacing", unit |-> unit]} ELSE {})]
    /\ UNCHANGED <<requestQueue, isProcessingQueue>>
    /\ UNCHANGED <<providers, routingConfig, callVars, log>>

\* The work of a unit ends: its wrapper resolves or rejects the promise that
\* queueRequest returned and returns; the loop that awaited it goes on to the
\* pacing delay.
UnitSettles(p, unit, success) ==
    /\ [at |-> "awaiting", unit |-> unit] \in loops[p]
    /\ units' = [units EXCEPT ![unit].status = IF success THEN "resolved" ELSE "rejected"]
    /\ loops' = [loops EXCEPT ![p] =
                    (@ \ {[at |-> "awaiting", unit |-> unit]})
                    \cup {[at |-> "pacing", unit |-> unit]}]
    /\ UNCHANGED <<requestQueue, isProcessingQueue>>
    /\ UNCHANGED <<providers, routingConfig, callVars, log>>

\* The pacing delay of a loop has passed: back to the test of the while loop.
PacingTimerFires(p, loop) ==
    /\ loop \in loops[p]
    /\ loop.at = "pacing"
    /\ LET instance == LoopHead([Instance(p) EXCEPT !.loops = @ \ {loop}])
       IN  /\ Install(p, instance)
           /\ units' = Running(units, instance.started)
    /\ UNCHANGED <<providers, routingConfig, callVars, log>>

\* The loops there can be.
Loops == [at : {"awaiting", "pacing"}, unit : Units]

QueueNext ==
    \/ \E providerName \in Providers \cup {"X"}, unit \in Units :
          QueueRequest(providerName, unit)
    \/ \E p \in Providers, unit \in Units, success \in BOOLEAN : UnitSettles(p, unit, success)
    \/ \E p \in Providers, loop \in Loops : PacingTimerFires(p, loop)

\* Units of work handed to queueRequest at any moment, each ending at any
\* moment after it was started, if it ends.
QueueSpec == ManagerInit /\ [][QueueNext]_vars

\* The same, with every pacing timer firing and the work of every started
\* unit coming to an end.
QueueLiveSpec ==
    /\ QueueSpec
    /\ \A p \in Providers :
          /\ WF_vars(\E loop \in Loops : PacingTimerFires(p, loop))
          /\ WF_vars(\E unit \in Units, success \in BOOLEAN : UnitSettles(p, unit, success))

\* ---- rate-limit information of the responses ----

\* The transport call resolves with a response whose headers report the
\* fraction `remaining` of the rate-limit budget (NoNumber: no such headers):
\* the response on record.
TransportResolvesReporting(c, usage, remaining) ==
    /\ TransportResolves(c, usage, TRUE)
    /\ log' = Append(log, [op |-> "response", call |-> c, provider |-> current[c],
                           rateLimitRemaining |-> remaining])
    /\ UNCHANGED queueVars

RateLimitInit ==
    /\ providers = [p \in Providers |->
                       [config |-> InitialConfig(p), metrics |-> InitialMetrics]]
    /\ routingConfig = DefaultRoutingConfig
    /\ behaviour = [p \in Providers |-> {"ok"}]
    /\ IdleCalls(Calls)
    /\ selection = NoSelection
    /\ log = <<>>
    /\ QueuesIdle

RateLimitNext ==
    \/ \E c \in Started, context \in Contexts : Route(c, context)
    \/ \E c \in Started, usage \in Usages, remaining \in RateLimits :
          TransportResolvesReporting(c, usage, remaining)
    \/ \E c \in Started, responseTime \in Latencies :
          AttemptSucceeded(c, responseTime, TRUE) /\ UNCHANGED <<log, queueVars>>

\* Calls answered by providers that report their rate-limit budget.
RateLimitSpec == RateLimitInit /\ [][RateLimitNext]_vars

\* ---- the failed transport attempts ----

\* fn() rejects: the failed attempt on record, with the provider it was made
\* against and the key under which the catch block counts it.
TransportRejectsLogged(c, error) ==
    /\ TransportRejects(c, error, TRUE)
    /\ log' = Append(log, [op |-> "failed attempt", provider |-> current[c],
                           errorCode |-> ErrorCode(error)])
    /\ UNCHANGED queueVars

AttemptsNext ==
    \/ \E c \in Started, context \in Contexts :
          Chat(c, context) /\ UNCHANGED <<selection, log, queueVars>>
    \/ \E c \in Started, usage \in Usages :
          TransportResolves(c, usage, TRUE) /\ UNCHANGED <<log, queueVars>>
    \/ \E c \in Started, error \in Faults : TransportRejectsLogged(c, error)
    \/ \E c \in Started : RetryTimerFires(c) /\ UNCHANGED <<log, queueVars>>
    \/ \E c \in Started, responseTime \in Latencies :
          AttemptSucceeded(c, responseTime, TRUE) /\ UNCHANGED <<log, queueVars>>
    \/ \E c \in Started, responseTime \in Latencies :
          AttemptFailed(c, responseTime, TRUE) /\ UNCHANGED <<log, queueVars>>

\* Two calls, one provider answering and the other failing with errors that
\* are retried, errors that are not, and timeouts, which have no code.
AttemptsWorlds ==
    {[p \in Providers |-> IF p = u THEN b ELSE {"ok"}] :
        u \in Providers,
        b \in {{"503"}, {"timeout"}, {"503", "timeout", "ok"}, {"400", "ECONNREFUSED"}}}

AttemptsCalls == {1, 2}

AttemptsInit ==
    /\ providers = [p \in Providers |->
                       [config |-> InitialConfig(p), metrics |-> InitialMetrics]]
    /\ routingConfig \in {[DefaultRoutingConfig EXCEPT !.enableFallback = f] : f \in BOOLEAN}
    /\ behaviour \in AttemptsWorlds
    /\ IdleCalls(AttemptsCalls)
    /\ selection = NoSelection
    /\ log = <<>>
    /\ QueuesIdle

\* Every failed transport attempt of the calls on record.
AttemptsSpec == AttemptsInit /\ [][AttemptsNext]_vars

\* ----------------------------------------------------------------- claims
Metrics(p) == providers[p].metrics
Names(history) == {history[i].providerName : i \in 1 .. Len(history)}
Executing(c) == pc[c] \in {"inflight", "delay", "failed", "succeeded"}

\* C1: in every reachable state, for every provider,
\* successfulRequests + failedRequests = totalRequests, whatever the
\* interleaving of the calls that use the provider.
C1_MetricsBalanced ==
    \A p \in Providers :
        Metrics(p).successfulRequests + Metrics(p).failedRequests
            = Metrics(p).totalRequests

\* A provider has recorded the success of one call and the failure of
\* another call, which has gone on to its fallback.
C1_Witness ==
    \E p \in Providers, c1, c2 \in Started :
        /\ c1 # c2
        /\ Metrics(p).successfulRequests >= 1
        /\ Metrics(p).failedRequests >= 1
        /\ pc[c1] = "done" /\ current[c1] = p
        /\ p \in Names(attempted[c2])

\* C2 (as claimed): with fallback enabled and every provider answering 503 to
\* every attempt, a call that has started on a provider is eventually rejected.
C2_EventuallyRejects ==
    \A c \in LiveCalls :
        ((\A p \in Providers : behaviour[p] = {"503"})
            /\ routingConfig.enableFallback
            /\ pc[c] = "inflight")
        ~> (pc[c] = "rejected")

\* C3 (as claimed): within one call no provider is executed twice: the failed
\* providers of the call are distinct and the provider being executed is none
\* of them.
C3_NoProviderTwice ==
    \A c \in Started :
        /\ Cardinality(Names(attempted[c])) = Len(attempted[c])
        /\ Executing(c) => current[c] \notin Names(attempted[c])

\* C4 (as claimed): an execution that failed with HTTP 400 is the last one of
\* its call: the call rejects with that error and runs no other provider.
C4_NoFallbackAfter400 ==
    \A c \in Started :
        \A i \in 1 .. Len(attempted[c]) :
            attempted[c][i].error = "400" =>
                /\ i = Len(attempted[c])
                /\ pc[c] = "rejected"
                /\ result[c] = [kind |-> "error", error |-> "400"]

\* C5: an attempt that fails with HTTP 400 ends the executor's run: the run
\* does not wait after it and does not call the transport again, and against a
\* provider that answers 400 to every call the run is a single attempt.
C5_NoRetryAfter400 ==
    \A c \in Started :
        lastError[c] = "400" =>
            /\ pc[c] \in {"failed", "rejected"}
            /\ Len(delays[c]) = attempt[c]
            /\ behaviour[current[c]] = {"400"} => attempt[c] = 0 /\ delays[c] = <<>>

\* The executor has thrown a 400 it caught at its first attempt.
C5_Witness ==
    \E c \in Started :
        /\ pc[c] = "failed" /\ lastError[c] = "400" /\ attempt[c] = 0
        /\ Metrics(current[c]).errorCounts["400"] >= 1

\* Provider A fails every call, provider B answers every call, fallback is on.
C6_Scenario ==
    /\ "ok" \notin behaviour["A"]
    /\ behaviour["B"] = {"ok"}
    /\ routingConfig.enableFallback

\* C6: in that scenario every call for which the router has selected a
\* provider eventually resolves with a response whose provider field is "B".
C6_ResolvesWithB ==
    \A c \in LiveCalls :
        (C6_Scenario /\ pc[c] = "inflight")
        ~> (pc[c] = "done" /\ result[c] = [kind |-> "response", provider |-> "B"])

\* A call that started on A has resolved with B after A's failure.
C6_Witness ==
    \E c \in Started :
        /\ C6_Scenario
        /\ pc[c] = "done"
        /\ result[c] = [kind |-> "response", provider |-> "B"]
        /\ Len(attempted[c]) = 1 /\ attempted[c][1].providerName = "A"

\* The {providerName, error} pairs a rejection carries.
Carries(rejection, history) ==
    /\ "attempts" \in DOMAIN rejection
    /\ rejection.attempts = history

\* C7 (as claimed): a call rejected after its providers have failed rejects
\* with an error that carries the ordered {providerName, error} pairs of the
\* providers it executed.
C7_ErrorCarriesHistory ==
    \A c \in Started :
        (pc[c] = "rejected" /\ attempted[c] # <<>>) => Carries(result[c], attempted[c])

\* The calls whose execution against p reaches its terminal outcome in this step.
Terminating(p) ==
    {c \in Started : /\ current[c] = p
                     /\ pc[c] \in {"succeeded", "failed"}
                     /\ pc'[c] # pc[c]}

\* C8: a provider's totalRequests grows by exactly 1 in the step in which an
\* execution against it reaches its terminal outcome (success, final failure
\* or immediate fatal failure), and changes in no other step, retries included.
C8_OncePerExecution ==
    [][\A p \in Providers :
          providers'[p].metrics.totalRequests
              = Metrics(p).totalRequests + Cardinality(Terminating(p))]_vars

\* A call was rejected after three attempts against one provider, and that
\* provider counts one request and three errors.
C8_Witness ==
    \E c \in Started :
        /\ pc[c] = "rejected" /\ attempt[c] = 2 /\ Len(delays[c]) = 2
        /\ Metrics(current[c]).totalRequests = 1
        /\ Metrics(current[c]).errorCounts["503"] = 3

\* C9 (as claimed): at no moment are two transport calls to the same provider
\* in flight.
C9_OneInFlightPerProvider ==
    \A p \in Providers :
        Cardinality({c \in Started : pc[c] = "inflight" /\ current[c] = p}) <= 1

\* C10 (as claimed): an attempt that lost the race against the timeout is
\* retried after min(1000 * 2^attemptIndex, 120000) ms, and the failure is
\* propagated only by the third attempt.
C10_TimeoutRetried ==
    \A c \in Started :
        (lastError[c] = "timeout" /\ pc[c] \in {"delay", "failed"}) =>
            IF attempt[c] < maxAttempts - 1
            THEN /\ pc[c] = "delay"
                 /\ Len(delays[c]) = attempt[c] + 1
                 /\ delays[c][attempt[c] + 1] = Min(baseDelay * Pow2(attempt[c]), MaxBackoff)
            ELSE pc[c] = "failed"

\* The delays a run has waited are the first ones of `expected`.
DelaysSoFar(c, expected) ==
    /\ Len(delays[c]) <= Len(expected)
    /\ delays[c] = SubSeq(expected, 1, Len(delays[c]))

\* The call is executing against a provider whose every call fails with a
\* 429 that has no Retry-After header.
Always429(c) == Executing(c) /\ behaviour[current[c]] = {"429"}

\* C11: a run against a provider whose calls all fail with HTTP 429 without a
\* Retry-After header makes exactly 3 attempts: it waits 1000 ms after the
\* first, 2000 ms after the second and nothing after the third, and it does
\* get to the end of the third.
C11_ThreeAttemptsOn429 ==
    \A c \in ExecutorCalls :
        /\ [](Always429(c) =>
                /\ attempt[c] + 1 <= 3
                /\ DelaysSoFar(c, <<1000, 2000>>)
                /\ Len(delays[c]) = (IF pc[c] = "delay" THEN attempt[c] + 1 ELSE attempt[c])
                /\ pc[c] = "failed" => attempt[c] + 1 = 3)
        /\ (Always429(c) /\ pc[c] = "inflight" /\ attempt[c] = 0)
              ~> (Always429(c) /\ pc[c] = "failed" /\ attempt[c] + 1 = 3
                     /\ delays[c] = <<1000, 2000>>)

\* The third attempt against such a provider has failed.
C11_Witness ==
    \E c \in ExecutorCalls :
        /\ Always429(c) /\ pc[c] = "failed" /\ attempt[c] = 2
        /\ delays[c] = <<1000, 2000>>
        /\ Metrics(current[c]).errorCounts["429"] >= 2

\* C12: whatever the transport answers, one run of the executor calls it at
\* most 3 times.
C12_AtMostThreeAttempts ==
    \A c \in Started : Executing(c) => attempt[c] + 1 <= 3

\* A run against a transport that fails in more than one way has used its
\* third attempt.
C12_Witness ==
    \E c \in Started :
        /\ pc[c] = "failed" /\ attempt[c] = 2
        /\ behaviour[current[c]] = Outcomes
        /\ Cardinality({code \in ErrorCodes : Metrics(current[c]).errorCounts[code] > 0}) >= 2

\* The error codes for which the catch block of the executor has a branch.
Classified == {"429", "504", "ETIMEDOUT", "400", "503", "ECONNREFUSED"}

\* C13 (as claimed): a run that ends with an error of no classified code has
\* used all 3 attempts.
C13_OtherErrorsAfterCap ==
    \A c \in Started :
        (pc[c] = "failed" /\ ErrorCode(lastError[c]) \notin Classified)
            => attempt[c] + 1 = 3

\* C13 (amended): an error of no classified code ends the run at the attempt
\* at which it occurs: the run does not wait after it and does not call the
\* transport again.
C13_OtherErrorsAtOnce ==
    \A c \in Started :
        (lastError[c] # "none" /\ ErrorCode(lastError[c]) \notin Classified)
            => /\ pc[c] \in {"failed", "rejected"}
               /\ Len(delays[c]) = attempt[c]

\* A run has ended with a 500 at its second attempt, the first having failed
\* with a 503 that was retried.
C13_Witness ==
    \E c \in Started :
        /\ pc[c] = "failed" /\ lastError[c] = "500"
        /\ attempt[c] = 1 /\ Len(delays[c]) = 1
        /\ Metrics(current[c]).errorCounts["500"] = 1
        /\ Metrics(current[c]).errorCounts["503"] = 1
\* A routing decision is on record.
Routed == selection # NoSelection

\* The candidate set the router builds for a context size.
Candidates(contextSize) == {p \in Providers : Eligible(p, contextSize)}

\* The rate-limit-remaining fraction of a provider, 1.0 when unknown.
RemainingFraction(p) ==
    IF Metrics(p).rateLimitRemaining = NoNumber
    THEN <<1, 1>>
    ELSE Metrics(p).rateLimitRemaining

\* The provider is enabled and its context window covers the context size.
Fits(p, contextSize) ==
    /\ providers[p].config.enabled
    /\ providers[p].config.contextWindow >= contextSize

PreferredApplies(context) ==
    /\ context.preferredProvider \in Providers
    /\ Fits(context.preferredProvider, context.contextSize)

\* priority + bonusA + bonusB + successRate * 2 of a provider for a context.
ScoreWithoutLatency(p, context) ==
    LET large == providers[p].config.contextWindow > LargeContextWindow
        bonusA == IF large /\ context.taskComplexity >= routingConfig.taskComplexityThreshold
                  THEN 2 ELSE 0
        bonusB == IF large /\ context.contextSize >= routingConfig.contextSizeThreshold
                  THEN 3 ELSE 0
        successRate == IF Metrics(p).totalRequests = 0
                       THEN <<1, 1>>
                       ELSE Rat(Metrics(p).successfulRequests, Metrics(p).totalRequests)
    IN  RatAdd(RatInt(providers[p].config.priority + bonusA + bonusB),
               RatMul(successRate, <<2, 1>>))

\* (1 / avgLatencyMs) * 0.5 of a provider whose average is not 0.
LatencyTerm(p) ==
    LET avg == Metrics(p).averageResponseTime
    IN  RatMul(Rat(avg[2], avg[1]), <<1, 2>>)

HasLatency(p) == Metrics(p).averageResponseTime[1] > 0

\* The score with the latency term left out exactly when the provider's own
\* average is 0.
ScoreOwnLatency(p, context) ==
    IF HasLatency(p)
    THEN RatAdd(ScoreWithoutLatency(p, context), LatencyTerm(p))
    ELSE ScoreWithoutLatency(p, context)

\* The score of p when it is compared with q: the latency term is added when
\* both averages are above 0.
ScoreAgainst(p, q, context) ==
    IF HasLatency(p) /\ HasLatency(q)
    THEN RatAdd(ScoreWithoutLatency(p, context), LatencyTerm(p))
    ELSE ScoreWithoutLatency(p, context)

\* A routing decision made by scoring: no preferred provider applied and
\* there was a candidate.
Scored ==
    /\ Routed
    /\ ~PreferredApplies(selection.context)
    /\ Candidates(selection.context.contextSize) # {}

\* C15 (as claimed): a routing decision made by scoring returns a candidate
\* whose score, with its latency term left out exactly when its own average
\* is 0, is the highest of the candidates' scores.
C15_MaximisesOwnLatencyScore ==
    Scored =>
        /\ selection.provider \in Candidates(selection.context.contextSize)
        /\ \A q \in Candidates(selection.context.contextSize) :
               ~RatLess(ScoreOwnLatency(selection.provider, selection.context),
                        ScoreOwnLatency(q, selection.context))

\* C15 (amended): a routing decision made by scoring returns a candidate that
\* the other candidate does not outscore, where the latency term is added to
\* the two scores only when both candidates' averages are above 0.
C15_MaximisesPairwiseScore ==
    Scored =>
        /\ selection.provider \in Candidates(selection.context.contextSize)
        /\ \A q \in Candidates(selection.context.contextSize) \ {selection.provider} :
               ~RatLess(ScoreAgainst(selection.provider, q, selection.context),
                        ScoreAgainst(q, selection.provider, selection.context))

\* The latency term has decided: the router has returned the second
\* registered provider, whose score without the latency term equals the
\* first one's and whose average is the lower of the two.
C15_Witness ==
    /\ Scored
    /\ selection.provider = "B"
    /\ Candidates(selection.context.contextSize) = {"A", "B"}
    /\ ScoreWithoutLatency("A", selection.context) = ScoreWithoutLatency("B", selection.context)
    /\ Metrics("A").averageResponseTime = <<300, 1>>
    /\ Metrics("B").averageResponseTime = <<100, 1>>

\* C16: a routing decision for a context whose preferredProvider names a
\* registered, enabled provider with a context window that covers the context
\* size returns that provider, whatever the metrics, rate-limit state and
\* scores of the providers.
C16_PreferredReturned ==
    (Routed /\ PreferredApplies(selection.context))
        => selection.provider = selection.context.preferredProvider

\* The router has returned the preferred provider although it is no
\* candidate (a tenth of its rate limit is left, half of its requests have
\* failed) and the other provider is one.
C16_Witness ==
    \E p, q \in Providers :
        /\ Routed /\ PreferredApplies(selection.context)
        /\ selection.context.preferredProvider = p /\ selection.provider = p
        /\ Metrics(p).rateLimitRemaining = <<1, 10>>
        /\ Metrics(p).failedRequests = 1
        /\ Candidates(selection.context.contextSize) = {q} /\ q # p
        /\ providers[q].config.priority > providers[p].config.priority

\* The providers that are enabled and eligible for a context size: the
\* window covers it and the remaining fraction is not below the threshold.
EnabledEligible(contextSize) ==
    {p \in Providers : /\ Fits(p, contextSize)
                       /\ ~RatLess(RemainingFraction(p), routingConfig.rateLimitThreshold)}

C19_Scenario(openai, claude) ==
    /\ openai # claude
    /\ providers[openai].config.contextWindow = 128000
    /\ providers[claude].config.contextWindow = 200000
    /\ \A p \in {openai, claude} :
          /\ providers[p].config.enabled
          /\ providers[p].config.priority = 1
          /\ Metrics(p) = InitialMetrics
    /\ routingConfig = DefaultRoutingConfig

\* C19: in that scenario a call with context size 95000 and no preferred
\* provider is routed to the provider with the window of 200000, whether that
\* provider was registered first or second.
C19_RoutedToLargeWindow ==
    \A openai, claude \in Providers :
        (/\ Routed
         /\ C19_Scenario(openai, claude)
         /\ selection.context.contextSize = 95000
         /\ selection.context.preferredProvider = Undefined)
            => /\ selection.provider = claude
               /\ \A c \in Started : pc[c] = "inflight" /\ current[c] = claude

\* A call of low task complexity has been routed to the large-window
\* provider, which was registered second.
C19_Witness ==
    /\ Routed
    /\ C19_Scenario("A", "B")
    /\ selection.context = [taskComplexity |-> 5, contextSize |-> 95000,
                            preferredProvider |-> Undefined]
    /\ selection.provider = "B"
    /\ \E c \in Started : pc[c] = "inflight" /\ current[c] = "B"

\* The rejection of chat() when the router returns no provider.
NoEligibleProvider == [kind |-> "error", error |-> "No eligible provider"]

\* chat() has failed call c with that error before any transport call, and
\* has left the metrics as they were.
FailsUntouched(c) ==
    /\ pc'[c] = "rejected"
    /\ result'[c] = NoEligibleProvider
    /\ current'[c] = "null"
    /\ \A p \in Providers : providers'[p].metrics = Metrics(p)

Performed(ops) == log' # log /\ log'[Len(log')].op \in ops

\* No counter of provider p is lower after the step than before it.
CountersKept(p) ==
    /\ providers'[p].metrics.totalRequests >= Metrics(p).totalRequests
    /\ providers'[p].metrics.successfulRequests >= Metrics(p).successfulRequests
    /\ providers'[p].metrics.failedRequests >= Metrics(p).failedRequests
    /\ providers'[p].metrics.totalTokensUsed >= Metrics(p).totalTokensUsed
    /\ providers'[p].metrics.totalInputTokens >= Metrics(p).totalInputTokens
    /\ providers'[p].metrics.totalOutputTokens >= Metrics(p).totalOutputTokens
    /\ ~RatLess(providers'[p].metrics.totalCost, Metrics(p).totalCost)

\* C21 (as claimed): no counter that getMetrics() reports for a provider is
\* lowered by a recorded execution of chat() or testProvider, by
\* updateProviderConfig, by updateRoutingConfig or by updateSettings.
C21_CountersNeverDecrease ==
    [][Performed({"updateMetrics", "updateProviderConfig", "updateRoutingConfig",
                  "updateSettings"})
          => \A p \in Providers : CountersKept(p)]_vars

\* C26 (as claimed): an assignment to the value that getMetrics() or
\* getProviderMetrics() returned changes neither the metrics the manager holds
\* nor the provider the router returns for any context.
C26_ReturnedMetricsAreCopies ==
    [][Performed({"write"})
          => /\ \A p \in Providers : providers'[p].metrics = Metrics(p)
             /\ \A context \in Contexts :
                   selectProvider(context)' = selectProvider(context)]_vars

\* The response times on record for provider p, oldest first.
RECURSIVE RecordedTimes(_, _)
RecordedTimes(entries, p) ==
    IF entries = <<>> THEN <<>>
    ELSE IF Head(entries).op = "updateMetrics" /\ Head(entries).provider = p
         THEN <<Head(entries).responseTime>> \o RecordedTimes(Tail(entries), p)
         ELSE RecordedTimes(Tail(entries), p)

RECURSIVE Sum(_)
Sum(numbers) == IF numbers = <<>> THEN 0 ELSE Head(numbers) + Sum(Tail(numbers))

\* C22: after n >= 1 recorded executions for a provider, successes and
\* failures alike, averageResponseTime is the sum of the n recorded response
\* times divided by n.
C22_AverageIsMean ==
    \A p \in Providers :
        LET times == RecordedTimes(log, p)
        IN  Len(times) >= 1
                => /\ Metrics(p).totalRequests = Len(times)
                   /\ Metrics(p).averageResponseTime = Rat(Sum(times), Len(times))

\* Three executions of different response times are on record for a
\* provider, a failure among them; the mean is not a whole number.
C22_Witness ==
    \E p \in Providers :
        /\ Cardinality({RecordedTimes(log, p)[i] : i \in 1 .. Len(RecordedTimes(log, p))}) = 3
        /\ Metrics(p).failedRequests >= 1 /\ Metrics(p).successfulRequests >= 1
        /\ Metrics(p).averageResponseTime = <<350, 3>>

\* inputTokens / 1000 * input + outputTokens / 1000 * output
CostOf(usage, costPer1kTokens) ==
    RatAdd(RatMul(Rat(usage.inputTokens, 1000), costPer1kTokens.input),
           RatMul(Rat(usage.outputTokens, 1000), costPer1kTokens.output))

\* The token counters and the cost of provider p are the same after the step.
TokensAndCostKept(p) ==
    /\ providers'[p].metrics.totalTokensUsed = Metrics(p).totalTokensUsed
    /\ providers'[p].metrics.totalInputTokens = Metrics(p).totalInputTokens
    /\ providers'[p].metrics.totalOutputTokens = Metrics(p).totalOutputTokens
    /\ providers'[p].metrics.totalCost = Metrics(p).totalCost

\* C23: the record of a success that reports usage on a provider with a cost
\* per 1000 tokens raises totalCost by inputTokens/1000*input +
\* outputTokens/1000*output, which is 0.025 for 1000 and 500 tokens at 0.01
\* and 0.03; the record of a failure leaves the token counters and totalCost
\* as they were.
C23_CostOfUsage ==
    [][Performed({"updateMetrics"}) =>
          LET entry == log'[Len(log')]
              p == entry.provider
              costPer1kTokens == providers[p].config.costPer1kTokens
          IN  /\ (entry.success /\ entry.usage # NoObject /\ costPer1kTokens # NoObject)
                    => /\ providers'[p].metrics.totalCost
                              = RatAdd(Metrics(p).totalCost, CostOf(entry.usage, costPer1kTokens))
                       /\ (/\ entry.usage.inputTokens = 1000 /\ entry.usage.outputTokens = 500
                           /\ costPer1kTokens = [input |-> <<1, 100>>, output |-> <<3, 100>>])
                             => providers'[p].metrics.totalCost
                                    = RatAdd(Metrics(p).totalCost, <<25, 1000>>)
              /\ ~entry.success => TokensAndCostKept(p)]_vars

\* A priced provider has two successes with usage and a failure on record.
C23_Witness ==
    \E p \in Providers :
        /\ providers[p].config.costPer1kTokens # NoObject
        /\ Metrics(p).successfulRequests = 2 /\ Metrics(p).failedRequests = 1
        /\ Metrics(p).totalInputTokens = 2000
        /\ Metrics(p).totalCost = <<1, 20>>

\* C25: every invocation of a provider's API that a call makes sends the model
\* that provider was configured with when the call started.
C25_AttemptsUseCapturedProfile ==
    \A i, j \in 1..Len(log) :
        /\ i < j
        /\ log[i].op = "chat"
        /\ log[j].op = "callProviderAPI"
        /\ log[j].call = log[i].call
        => log[j].model = log[i].models[log[j].provider]

\* C28: a call gets a response only from attemptWithProvider(p) whose own
\* transport call has resolved, and the response names that p, be it the
\* provider selected at first or one reached by fallback.
C28_ResponseNamesItsProvider ==
    [][\A c \in ExecutorCalls :
          /\ pc[c] = "inflight" /\ pc'[c] = "succeeded"
             => current'[c] = current[c] /\ "ok" \in behaviour[current[c]]
          /\ result'[c] # result[c] /\ result'[c].kind = "response"
             => /\ pc[c] = "succeeded"
                /\ result'[c].provider = current[c]]_vars

\* A response produced by the fallback provider after the selected one failed.
C28_Witness ==
    \E c \in ExecutorCalls :
        /\ pc[c] = "done"
        /\ result[c] = [kind |-> "response", provider |-> "B"]
        /\ Len(attempted[c]) > 0
        /\ attempted[c][1].providerName = "A"

\* The call is executing against a provider whose every call fails in the
\* one way `fault`.
AlwaysFails(c, fault) == Executing(c) /\ behaviour[current[c]] = {fault}

\* 2^i for the retries a run can make.
TwoTo(i) == IF i = 0 THEN 1 ELSE 2

\* The delay the claim gives for retry i (0 or 1) after an error.
ClaimedBackoff(fault, i) ==
    IF fault = "504"
    THEN (IF 1000 * TwoTo(i) < 120000 THEN 1000 * TwoTo(i) ELSE 120000)
    ELSE 1000 * TwoTo(i)

\* C29: against a provider that always answers 504, 503 or a refused
\* connection, the delay before retry i (0, 1) is min(1000 * 2^i, 120000)
\* for 504 and 1000 * 2^i for the other two; there are at most two retries,
\* and the third failure is thrown with no delay after it.
C29_BackoffDelays ==
    \A c \in ExecutorCalls, fault \in {"504", "503", "ECONNREFUSED"} :
        AlwaysFails(c, fault) =>
            /\ Len(delays[c]) = (IF pc[c] = "delay" THEN attempt[c] + 1 ELSE attempt[c])
            /\ Len(delays[c]) <= 2
            /\ \A i \in 1..Len(delays[c]) : delays[c][i] = ClaimedBackoff(fault, i - 1)
            /\ pc[c] = "failed" => attempt[c] = 2 /\ lastError[c] = fault

\* The third 504 has been thrown, after delays of 1000 and 2000 ms.
C29_Witness ==
    \E c \in ExecutorCalls :
        /\ AlwaysFails(c, "504") /\ pc[c] = "failed" /\ attempt[c] = 2
        /\ delays[c] = <<1000, 2000>>
        /\ Metrics(current[c]).errorCounts["504"] = 3

\* C30: against a provider that always answers 429 with a Retry-After header
\* of s seconds, each retry waits s * 1000 ms, whatever the attempt, and the
\* run still ends with the third failure.
C30_RetryAfterDelays ==
    \A c \in ExecutorCalls :
        AlwaysFails(c, "429r") =>
            /\ Len(delays[c]) = (IF pc[c] = "delay" THEN attempt[c] + 1 ELSE attempt[c])
            /\ \A i \in 1..Len(delays[c]) : delays[c][i] = RetryAfterHeader("429r")[1] * 1000
            /\ attempt[c] + 1 <= 3
            /\ pc[c] = "failed" => attempt[c] + 1 = 3

\* The third 429 with a Retry-After of 5 s has been thrown, after two delays
\* of 5000 ms.
C30_Witness ==
    \E c \in ExecutorCalls :
        /\ AlwaysFails(c, "429r") /\ pc[c] = "failed" /\ attempt[c] = 2
        /\ delays[c] = <<5000, 5000>>

\* The profiles of a loaded list that are Azure profiles without a deployment
\* name or without an API version.
Loaded == log # <<>> /\ log[1].op = "load"
IncompleteAzure(providerConfigs) ==
    {i \in 1..Len(providerConfigs) :
        /\ providerConfigs[i].type = "azure-openai"
        /\ \/ providerConfigs[i].azureDeploymentName \in {Undefined, ""}
           \/ providerConfigs[i].azureApiVersion \in {Undefined, ""}}
ConfigurationError == "Azure OpenAI requires deploymentName and apiVersion"

\* C27 (as claimed): loading a list with any azure-openai profile that lacks
\* its deployment name or its API version fails with the configuration error.
C27_IncompleteAzureFailsLoad ==
    Loaded /\ IncompleteAzure(log[1].providerConfigs) # {}
        => log[1].outcome.error = ConfigurationError

\* C27 (amended): loading a list with an enabled azure-openai profile that
\* lacks its deployment name or its API version fails with the configuration
\* error and registers no provider; a list whose incomplete Azure profiles
\* are all disabled loads.
C27_EnabledIncompleteAzureFailsLoad ==
    Loaded =>
        LET providerConfigs == log[1].providerConfigs
            enabledOnes == {i \in IncompleteAzure(providerConfigs) : providerConfigs[i].enabled}
        IN  IF enabledOnes # {}
            THEN log[1].outcome = [error |-> ConfigurationError, providers |-> {}]
            ELSE log[1].outcome.error = "none"

\* A list with a complete profile and, after it, an enabled Azure profile
\* without an API version has been refused.
C27_Witness ==
    /\ Loaded
    /\ Len(log[1].providerConfigs) = 2
    /\ log[1].providerConfigs[1] =
          [type |-> "openai", enabled |-> TRUE,
           azureDeploymentName |-> Undefined, azureApiVersion |-> Undefined]
    /\ log[1].providerConfigs[2] =
          [type |-> "azure-openai", enabled |-> TRUE,
           azureDeploymentName |-> "set", azureApiVersion |-> Undefined]
    /\ log[1].outcome.error = ConfigurationError

\* C24: the response of a transport call that has lost the race against the
\* timeout settles no chat() call and changes no provider's metrics: it is
\* not the result of the call and is counted neither as a success nor as
\* token usage.
C24_LateResponseDiscarded ==
    [][Performed({"late response"})
          => /\ result' = result
             /\ pc' = pc
             /\ \A p \in Providers : providers'[p].metrics = Metrics(p)]_vars

\* The response of provider A has arrived after its call lost the race and
\* after chat() resolved with provider B; A counts one failure, no success
\* and no token.
C24_Witness ==
    \E c \in Started :
        /\ Len(Entries("late response", "A")) = 1
        /\ pc[c] = "done" /\ result[c] = [kind |-> "response", provider |-> "B"]
        /\ attempted[c] = <<[providerName |-> "A", error |-> "timeout"]>>
        /\ Metrics("A").failedRequests = 1 /\ Metrics("A").successfulRequests = 0
        /\ Metrics("A").totalTokensUsed = 0

\* testProvider has returned.
Tested == Len(log) = 2 /\ log[2].op = "testProvider returns"

\* C31: testProvider(name) returns success = true only if the provider
\* called name answered the probe; for a name that is not registered, or when
\* a call to the named provider has failed, it returns success = false with
\* an error.
C31_TestProviderReportsNamedProvider ==
    Tested =>
        LET providerName == log[1].providerName
            c == log[1].call
        IN  /\ log[2].success
               => result[c] = [kind |-> "response", provider |-> providerName]
            /\ (providerName \notin Providers \/ providerName \in Names(attempted[c]))
               => ~log[2].success /\ log[2].error # Undefined

\* C32: every provider a chat() call attempts, the first and every fallback,
\* is enabled and has a context window that covers the context size of the
\* request.
C32_AttemptedProvidersEligible ==
    \A c \in ExecutorCalls :
        Routed /\ Executing(c) => Fits(current[c], selection.context.contextSize)

\* The call cannot fall back: fallback is off, or one provider is registered.
NoFallback == ~routingConfig.enableFallback \/ Cardinality(DOMAIN providers) = 1

\* C33: with enableFallback false, or with one provider registered, a chat()
\* call attempts the selected provider and no other; if that provider fails
\* the call rejects with its error; the metrics of every other provider stay
\* as they were.
C33_OneProviderWithoutFallback ==
    \A c \in ExecutorCalls :
        NoFallback /\ Routed /\ selection.provider # "null" =>
            /\ current[c] = selection.provider
            /\ Names(attempted[c]) \subseteq {selection.provider}
            /\ Len(attempted[c]) <= 1
            /\ Len(attempted[c]) = 1
               => /\ pc[c] = "rejected"
                  /\ result[c] = [kind |-> "error", error |-> attempted[c][1].error]
            /\ pc[c] = "rejected" => Len(attempted[c]) = 1
            /\ \A p \in DOMAIN providers \ {selection.provider} : Metrics(p) = InitialMetrics

\* With fallback off and two providers registered, A has failed and the call
\* has rejected with A's error.
C33_Witness ==
    \E c \in ExecutorCalls :
        /\ ~routingConfig.enableFallback
        /\ DOMAIN providers = Providers
        /\ pc[c] = "rejected"
        /\ attempted[c] = <<[providerName |-> "A", error |-> "503"]>>
        /\ result[c] = [kind |-> "error", error |-> "503"]
        /\ Metrics("A").failedRequests = 1
        /\ "ok" \in behaviour["B"]

\* The units of work handed to the queue of provider p, and those of them
\* whose work has been started.
UnitsOf(p) == {u \in Units : units[u].provider = p /\ units[u].status # "not found"}
StartedUnits == {u \in Units : units[u].status \in {"running", "resolved", "rejected"}}
SettledUnits == {u \in Units : units[u].status \in {"resolved", "rejected"}}

\* C34: for each provider, the units of work are started in the order in which
\* they were handed to queueRequest, at most one of them is running, and at
\* most one processQueue loop is active, wherever in the course of a loop the
\* units are enqueued.
C34_QueueDiscipline ==
    \A p \in Providers :
        /\ Cardinality(loops[p]) <= 1
        /\ Cardinality({u \in UnitsOf(p) : units[u].status = "running"}) <= 1
        /\ \A u, v \in UnitsOf(p) : u < v /\ v \in StartedUnits => u \in SettledUnits
        /\ \A i, j \in 1..Len(requestQueue[p]) :
              i < j => requestQueue[p][i] < requestQueue[p][j]

\* Three units for A: the first has ended, the second, enqueued behind it, is
\* running, and the third waits.
C34_Witness ==
    /\ UnitsOf("A") = {1, 2, 3}
    /\ units[1].status = "resolved"
    /\ units[2].status = "running"
    /\ requestQueue["A"] = <<3>>
    /\ loops["A"] = {[at |-> "awaiting", unit |-> 2]}

\* C35: a unit of work that waits in a queue is never without a loop to take
\* it, and, the work of every started unit coming to an end, every unit handed
\* to queueRequest for a registered provider is started and its promise
\* settles.
C35_EveryUnitServed ==
    /\ [](\A p \in Providers :
             /\ requestQueue[p] # <<>> => loops[p] # {} /\ isProcessingQueue[p]
             /\ \A u \in UnitsOf(p) :
                   units[u].status = "queued" <=> \E i \in 1..Len(requestQueue[p]) :
                                                      requestQueue[p][i] = u)
    /\ \A u \in Units :
          (units[u].status = "queued") ~> (u \in StartedUnits)
    /\ \A u \in Units :
          (units[u].status \in {"queued", "running"}) ~> (u \in SettledUnits)

\* The third unit for A waits in the queue while the loop is in the pacing
\* delay that follows the second.
C35_Witness ==
    /\ units[1] = [status |-> "resolved", provider |-> "A"]
    /\ units[2] = [status |-> "resolved", provider |-> "A"]
    /\ units[3] = [status |-> "queued", provider |-> "A"]
    /\ loops["A"] = {[at |-> "pacing", unit |-> 2]}

\* The step in which the work of unit u fails.
Fails(u) == units[u].status = "running" /\ units'[u].status = "rejected"

\* C36: the failure of a unit of work rejects the promise of that unit and
\* touches no other unit; the loop stays, in its pacing delay, with
\* isProcessingQueue up; the units behind the failed one are still started,
\* and isProcessingQueue is down again once the queue has been emptied.
C36_FailureStaysWithItsUnit ==
    /\ [][\A u \in Units : Fails(u) =>
             LET p == units[u].provider
             IN  /\ \A v \in Units \ {u} : units'[v] = units[v]
                 /\ loops'[p] = {[at |-> "pacing", unit |-> u]}
                 /\ isProcessingQueue'[p]
                 /\ requestQueue'[p] = requestQueue[p]]_vars
    /\ \A u, v \in Units :
          (/\ units[u].status = "rejected"
           /\ units[v].status = "queued"
           /\ units[v].provider = units[u].provider) ~> (v \in StartedUnits)
    /\ \A p \in Providers :
          (\E u \in UnitsOf(p) : units[u].status = "rejected")
             ~> (requestQueue[p] = <<>> /\ ~isProcessingQueue[p] /\ loops[p] = {})

\* The first unit for B failed; the second, behind it, was run to its end and
\* the loop has left.
C36_Witness ==
    /\ units[1] = [status |-> "rejected", provider |-> "B"]
    /\ units[2] = [status |-> "resolved", provider |-> "B"]
    /\ requestQueue["B"] = <<>>
    /\ ~isProcessingQueue["B"]
    /\ loops["B"] = {}

\* The place of a provider in the iteration order of the registry.
Position(p) == CHOOSE i \in 1..Len(ProviderOrder) : ProviderOrder[i] = p

\* Neither of two candidates outscores the other.
Tied(p, q, context) ==
    /\ ~RatLess(ScoreAgainst(p, q, context), ScoreAgainst(q, p, context))
    /\ ~RatLess(ScoreAgainst(q, p, context), ScoreAgainst(p, q, context))

\* C37: a routing decision made by scoring returns, of the candidates that tie
\* with the one it returns, the one that was registered first.
C37_TiesByRegistrationOrder ==
    Scored =>
        \A q \in Candidates(selection.context.contextSize) :
            Tied(selection.provider, q, selection.context)
                => Position(selection.provider) <= Position(q)

\* Two candidates with different histories and equal scores: the router has
\* returned the one registered first.
C37_Witness ==
    /\ Scored
    /\ Candidates(selection.context.contextSize) = Providers
    /\ Tied("A", "B", selection.context)
    /\ Metrics("A").totalRequests # Metrics("B").totalRequests
    /\ selection.provider = ProviderOrder[1]

\* The last response of provider p on record that reported its rate-limit
\* budget, if the call it answered has returned.
LastReport(p) ==
    LET reports == {i \in 1..Len(log) :
                       /\ log[i].op = "response"
                       /\ log[i].provider = p
                       /\ log[i].rateLimitRemaining # NoNumber}
    IN  IF reports = {}
        THEN NoNumber
        ELSE log[CHOOSE i \in reports : \A j \in reports : j <= i]

\* C38: once a call answered by a provider has returned, the provider's
\* rateLimitRemaining is the fraction its last response reported, and a
\* provider that reported less than the threshold is not among the candidates.
C38_RateLimitFollowsResponses ==
    \A p \in Providers :
        LET report == LastReport(p)
        IN  report # NoNumber /\ pc[report.call] = "done"
               => /\ Metrics(p).rateLimitRemaining = report.rateLimitRemaining
                  /\ RatLess(Rat(report.rateLimitRemaining[1], report.rateLimitRemaining[2]),
                             Rat(routingConfig.rateLimitThreshold[1],
                                 routingConfig.rateLimitThreshold[2]))
                     => p \notin Candidates(1000)

\* C39: the step of chat() that selects a provider, up to the start of the
\* first transport call, leaves the registry, every provider's configuration,
\* every provider's metrics and the routing configuration as they were.
C39_SelectionWritesNothing ==
    [][selection' # selection =>
          /\ DOMAIN providers' = DOMAIN providers
          /\ \A p \in DOMAIN providers :
                /\ providers'[p].config = providers[p].config
                /\ providers'[p].metrics = providers[p].metrics
          /\ routingConfig' = routingConfig]_vars

\* A provider with requests and a response-time average behind it has been
\* selected by scoring.
C39_Witness ==
    /\ Scored
    /\ selection.provider \in Providers
    /\ Metrics(selection.provider).totalRequests = 2
    /\ Metrics(selection.provider).lastUsed = "set"
    /\ pc[1] = "inflight"

\* The failed transport attempts on record against provider p, and those of
\* them counted under one key.
FailedAttempts(p) == Entries("failed attempt", p)
FailedAttemptsAs(p, code) == SelectSeq(FailedAttempts(p), LAMBDA entry : entry.errorCode = code)

\* The sum of the values of a provider's errorCounts.
RECURSIVE SumOver(_, _)
SumOver(counts, keys) ==
    IF keys = {} THEN 0
    ELSE LET key == CHOOSE k \in keys : TRUE
         IN  counts[key] + SumOver(counts, keys \ {key})
ErrorTotal(p) == SumOver(Metrics(p).errorCounts, DOMAIN Metrics(p).errorCounts)

\* C40: for every provider, each key of errorCounts holds the number of failed
\* transport attempts made against it with that status or code ("unknown"
\* when the error has neither), so that the sum of errorCounts is the number
\* of its failed transport attempts, and that sum is >= failedRequests.
C40_ErrorCountsCountFailedAttempts ==
    \A p \in Providers :
        /\ \A code \in ErrorCodes :
              Metrics(p).errorCounts[code] = Len(FailedAttemptsAs(p, code))
        /\ ErrorTotal(p) = Len(FailedAttempts(p))
        /\ ErrorTotal(p) >= Metrics(p).failedRequests

\* A provider has failed four or more transport attempts, some of them retried, in
\* two requests that failed.
C40_Witness ==
    \E p \in Providers :
        /\ Len(FailedAttempts(p)) >= 4
        /\ Metrics(p).failedRequests = 2
        /\ ErrorTotal(p) > Metrics(p).failedRequests
        /\ Cardinality({code \in ErrorCodes : Metrics(p).errorCounts[code] > 0}) >= 2

====
